---- MODULE Spec2Model ----
(***************************************************************************)
(* ZappaVault release reconciliation scripts: title normalizers, listing   *)
(* extractors, catalog loaders, matchers and the comparison loops of       *)
(* parse_zappa_list.py (pzl), zappa_comparison.py (zc),                    *)
(* find_missing_zappa.py (fm) and extract_and_compare.py (ext).            *)
(*                                                                         *)
(* A Python string is a sequence of characters; a character is a           *)
(* one-character TLA+ string, except the non-ASCII ones, which are named:  *)
(* "EN" U+2013 en dash, "EM" U+2014 em dash, "MINUS" U+2212 minus sign,    *)
(* "UP" U+2191 upwards arrow.                                              *)
(***************************************************************************)
EXTENDS Integers, Sequences, FiniteSets, TLC

VARIABLES
    \* normalizing a title twice
    nScript,    \* the script whose normalizer runs
    nTitle,     \* the raw title
    nOnce,      \* normalize_title(title)
    nTwice,     \* normalize_title(normalize_title(title))
    nPc,
    \* one call of a matcher
    mScript,    \* the script whose matcher runs
    mQuery,     \* the title looked for
    mLibrary,   \* the library's keys, in iteration order
    mResult,    \* what the call returned
    mPc,
    \* one call of a listing extractor
    eScript,    \* the script whose extractor runs
    eText,      \* the listing text
    eOut,       \* the keys of what the call returned, in order
    ePc,
    \* one run of a script's comparison of a listing with the library folder
    rScript,     \* the script that runs
    rText,       \* the listing text
    rFolders,    \* os.listdir(library_path)
    rReleases,   \* list_releases
    rLibrary,    \* the library's keys, in insertion order
    rAnswers,    \* what the matcher returned for each release compared so far
    rFound,      \* found (matched, in find_missing_zappa)
    rMissing,    \* missing
    rPc,
    \* one call of a path normalizer
    pScript,    \* the script whose path normalizer runs
    pPath,      \* the raw path
    pOut,       \* what the call returned
    pPc,
    \* one lookup of a duration
    dScript,    \* the script whose lookup runs
    dRows,      \* the rows of the track table
    dTrack,     \* the track looked up
    dIndex,     \* durations
    dOut,       \* what the lookup returned
    dPc,
    \* two merge runs
    uScript,    \* the script that merges
    uRows,      \* the rows of the track table
    uIndex,     \* durations
    uBefore,    \* the library as the run read it
    uLibrary,   \* library, in memory
    uFile,      \* the file the run writes
    uFirst,     \* what the first run wrote
    uAlbum,     \* the position of the album merged next
    uTotal,     \* total_duration
    uUpdated,   \* updated_count
    uWrites,    \* the number of times the file was written
    uRun,       \* 1 in the first run, 2 in the second
    uPc,
    \* a run of generate_track_links
    kScript,    \* the script that makes the links
    kBefore,    \* the library file as the run read it
    kLibrary,   \* library, in memory
    kFile,      \* the file the run writes
    kErrors,    \* errors
    kAsked,     \* the paths sent to Dropbox, in order
    kVisited,   \* the passes of the two loops, in order
    kItem,      \* the position of the track or album visited next
    kTracksWithLinks,   \* tracks_with_links
    kCoversWithLinks,   \* covers_with_links
    kWrites,    \* the number of times the file was written
    kRun,       \* 1 in the first run, 2 in a run on the output of the first
    kFirst,     \* the passes of the first run
    kPc,
    \* a run of create_track_database
    sDirs,      \* sorted(album_dirs), each with its audio files
    sBefore,    \* the database as the run found it
    sDb,        \* the committed content of the database
    sAlbum,     \* the position of the directory scanned next
    sTotalTracks,   \* total_tracks
    sCommits,   \* the number of db_conn.commit() calls
    sReport,    \* the report file
    sPc,
    \* one call of get_permanent_link (sgtl)
    cFile,      \* file_path
    cAnswers,   \* what Dropbox would answer for each candidate path
    cUrl,       \* the shared URL Dropbox has for the file
    cOut,       \* the link returned, the entries added to errors, the paths asked
    cPc,
    \* what a run needs before it starts
    iDurationsFile,  \* track_durations.json exists
    iLibraryFile,    \* the library file exists
    iCredentials,    \* the DROPBOX_ variables the environment has
    iResponse        \* what oauth2/token would answer

normVars == <<nScript, nTitle, nOnce, nTwice, nPc>>
matchVars == <<mScript, mQuery, mLibrary, mResult, mPc>>
extractVars == <<eScript, eText, eOut, ePc>>
runVars == <<rScript, rText, rFolders, rReleases, rLibrary, rAnswers, rFound, rMissing, rPc>>
pathVars == <<pScript, pPath, pOut, pPc>>
lookupVars == <<dScript, dRows, dTrack, dIndex, dOut, dPc>>
mergeVars == <<uScript, uRows, uIndex, uBefore, uLibrary, uFile, uFirst, uAlbum, uTotal,
              uUpdated, uWrites, uRun, uPc>>
linkVars == <<kScript, kBefore, kLibrary, kFile, kErrors, kAsked, kVisited, kItem,
             kTracksWithLinks, kCoversWithLinks, kWrites, kRun, kFirst, kPc>>
scanVars == <<sDirs, sBefore, sDb, sAlbum, sTotalTracks, sCommits, sReport, sPc>>
\* the variables of the duration, link and database scripts
tryVars == <<cFile, cAnswers, cUrl, cOut, cPc>>
inputVars == <<iDurationsFile, iLibraryFile, iCredentials, iResponse>>
mediaVars == <<pathVars, lookupVars, mergeVars, linkVars, scanVars, tryVars, inputVars>>
\* the variables of the release comparison scripts
titleVars == <<normVars, matchVars, extractVars, runVars>>
vars == <<titleVars, mediaVars>>

----------------------------------------------------------------------------
(* Characters and the str / re primitives the scripts use.                 *)

EnDash == "EN"
EmDash == "EM"
MinusSign == "MINUS"
UpArrow == "UP"

UpperSeq == <<"A","B","C","D","E","F","G","H","I","J","K","L","M",
              "N","O","P","Q","R","S","T","U","V","W","X","Y","Z">>
LowerSeq == <<"a","b","c","d","e","f","g","h","i","j","k","l","m",
              "n","o","p","q","r","s","t","u","v","w","x","y","z">>
DigitSeq == <<"0","1","2","3","4","5","6","7","8","9">>

SeqRange(s) == {s[i] : i \in 1..Len(s)}

UpperChars == SeqRange(UpperSeq)
LowerChars == SeqRange(LowerSeq)
\* re \d
IsDigit(c) == c \in SeqRange(DigitSeq)
\* re \w : letters, digits and the underscore
IsWordChar(c) == c \in UpperChars \cup LowerChars \cup SeqRange(DigitSeq) \cup {"_"}
\* re \s and str.strip / str.split whitespace
IsSpace(c) == c \in {" ", "\t", "\n"}

\* str.lower on one character
LowerChar(c) ==
    IF c \in UpperChars
    THEN LowerSeq[CHOOSE i \in 1..Len(UpperSeq) : UpperSeq[i] = c]
    ELSE c

\* str.lower
Lower(s) == [i \in 1..Len(s) |-> LowerChar(s[i])]

\* s[n:] for 0 <= n
DropN(s, n) == IF n >= Len(s) THEN <<>> ELSE SubSeq(s, n + 1, Len(s))

\* s[:n] for 0 <= n
TakeN(s, n) == IF n >= Len(s) THEN s ELSE SubSeq(s, 1, n)

\* length of the longest prefix of s made of whitespace (a greedy \s* at the start)
RECURSIVE SpaceRun(_)
SpaceRun(s) ==
    IF s = <<>> \/ ~IsSpace(s[1]) THEN 0 ELSE 1 + SpaceRun(Tail(s))

\* str.lstrip
LStrip(s) == DropN(s, SpaceRun(s))

RECURSIVE Reverse(_)
Reverse(s) == IF s = <<>> THEN <<>> ELSE Append(Reverse(Tail(s)), s[1])

\* str.rstrip
RStrip(s) == Reverse(LStrip(Reverse(s)))

\* str.strip
Strip(s) == RStrip(LStrip(s))

\* re.sub(r'\s+', ' ', s)
RECURSIVE CollapseSpaces(_)
CollapseSpaces(s) ==
    IF s = <<>> THEN <<>>
    ELSE IF IsSpace(s[1]) THEN <<" ">> \o CollapseSpaces(LStrip(s))
    ELSE <<s[1]>> \o CollapseSpaces(Tail(s))

\* s.startswith(p)
StartsWith(s, p) == Len(p) <= Len(s) /\ SubSeq(s, 1, Len(p)) = p

\* s.endswith(p)
EndsWith(s, p) == Len(p) <= Len(s) /\ SubSeq(s, Len(s) - Len(p) + 1, Len(s)) = p

\* a in b (substring test)
IsSubstring(a, b) ==
    \E i \in 0..(Len(b) - Len(a)) : SubSeq(b, i + 1, i + Len(a)) = a

\* s.split() : the maximal runs of non-whitespace characters, in order
\* length of the longest prefix of s without whitespace
RECURSIVE WordRun(_)
WordRun(s) ==
    IF s = <<>> \/ IsSpace(s[1]) THEN 0 ELSE 1 + WordRun(Tail(s))

RECURSIVE SplitWords(_)
SplitWords(s) ==
    LET t == LStrip(s)
    IN  IF t = <<>> THEN <<>>
        ELSE <<TakeN(t, WordRun(t))>> \o SplitWords(DropN(t, WordRun(t)))

\* set(s.split())
WordSet(s) == SeqRange(SplitWords(s))

\* set(w for w in s.split() if len(w) > 2)
LongWordSet(s) == {w \in WordSet(s) : Len(w) > 2}

----------------------------------------------------------------------------
(* Title normalizers.                                                      *)

\* [–—-]
IsDash(c) == c \in {EnDash, EmDash, "-"}
\* [–—/−]
IsDashOrSlash(c) == c \in {EnDash, EmDash, "/", MinusSign}
\* [^\w\s'-]
IsSpecial(c) == ~(IsWordChar(c) \/ IsSpace(c) \/ c \in {"'", "-"})
\* [^\w\s']
IsSpecialOrDash(c) == ~(IsWordChar(c) \/ IsSpace(c) \/ c = "'")

\* the character classes of the patterns, by name
InClass(class, c) ==
    CASE class = "['']"      -> c = "'"
      [] class = "/"         -> c = "/"
      [] class = "[EN EM -]" -> IsDash(c)
      [] class = "[EN EM / MINUS]" -> IsDashOrSlash(c)
      [] class = "[^\\w\\s'-]" -> IsSpecial(c)
      [] class = "[^\\w\\s']"  -> IsSpecialOrDash(c)
      [] class = "[-\\d]"     -> IsDigit(c) \/ c = "-"
      [] class = "[^\\)]"     -> c # ")"
      [] class = "[^(]"      -> c # "("

\* re.sub(class, to, s)
ReplaceChars(s, class, to) ==
    [i \in 1..Len(s) |-> IF InClass(class, s[i]) THEN to ELSE s[i]]

\* re.sub(class, '', s)
RECURSIVE RemoveChars(_, _)
RemoveChars(s, class) ==
    IF s = <<>> THEN <<>>
    ELSE (IF InClass(class, s[1]) THEN <<>> ELSE <<s[1]>>) \o RemoveChars(Tail(s), class)

\* re.sub(r'^\d{4}\s*[–—-]\s*', '', title)
StripYearPrefix(title) ==
    IF Len(title) >= 4 /\ \A i \in 1..4 : IsDigit(title[i])
    THEN LET a == DropN(title, 4)
             b == LStrip(a)
         IN  IF b # <<>> /\ IsDash(b[1]) THEN LStrip(Tail(b)) ELSE title
    ELSE title

\* extract_and_compare.normalize_title
ext_normalize_title(title) ==
    LET t1 == StripYearPrefix(title)
        t2 == Lower(t1)
        \* ["''"] -> "'" rewrites an apostrophe to itself
        t3 == ReplaceChars(t2, "['']", "'")
        t4 == ReplaceChars(t3, "[EN EM / MINUS]", "/")
        t5 == ReplaceChars(t4, "/", " ")
        t6 == RemoveChars(t5, "[^\\w\\s'-]")
        t7 == CollapseSpaces(t6)
    IN  Strip(t7)

Bookmark == <<"b","o","o","k","m","a","r","k">>

\* re.sub(r'\s+bookmark$', '', title)
StripBookmarkSuffix(title) ==
    IF EndsWith(title, Bookmark)
    THEN LET head == TakeN(title, Len(title) - Len(Bookmark))
         IN  IF head # <<>> /\ IsSpace(head[Len(head)]) THEN RStrip(head) ELSE title
    ELSE title

\* find_missing_zappa.normalize_title
fm_normalize_title(title) ==
    IF title = <<>> THEN <<>>
    ELSE LET t1 == Lower(title)
             t2 == ReplaceChars(t1, "['']", "'")
             t3 == ReplaceChars(t2, "[EN EM -]", "-")
             t4 == RemoveChars(t3, "[^\\w\\s'-]")
             t5 == CollapseSpaces(t4)
             t6 == StripBookmarkSuffix(t5)
         IN  Strip(t6)

\* zappa_comparison.normalize_title
zc_normalize_title(title) ==
    LET t1 == Lower(title)
        t2 == ReplaceChars(t1, "['']", "'")
        t3 == ReplaceChars(t2, "[EN EM -]", "-")
        t4 == ReplaceChars(t3, "[^\\w\\s'-]", " ")
        t5 == CollapseSpaces(t4)
    IN  Strip(t5)

\* parse_zappa_list.normalize
pzl_normalize(s) ==
    LET t1 == Lower(s)
        t2 == ReplaceChars(t1, "[^\\w\\s']", " ")
        t3 == CollapseSpaces(t2)
    IN  Strip(t3)

\* the normalizer of each script
Normalize(script, title) ==
    CASE script = "ext" -> ext_normalize_title(title)
      [] script = "fm"  -> fm_normalize_title(title)
      [] script = "zc"  -> zc_normalize_title(title)
      [] script = "pzl" -> pzl_normalize(title)

----------------------------------------------------------------------------
(* Matchers.  A library is the sequence of its keys in iteration order     *)
(* (dict insertion order, or the arbitrary order of a set).  A match       *)
(* result is the returned key, None, or the exception that ended the call; *)
(* tier names the place in the code that produced the key.                 *)

ReturnKey(k, t) == [outcome |-> "key", key |-> k, tier |-> t]
ReturnNone == [outcome |-> "none", key |-> <<>>, tier |-> "None"]
Raised == [outcome |-> "raised", key |-> <<>>, tier |-> "None"]

\* the first pass of a for-loop that returns, of the passes (indices) that
\* satisfy the loop's test; 0 if none does
FirstIndex(hits) ==
    IF hits = {} THEN 0 ELSE CHOOSE i \in hits : \A j \in hits : i <= j

Min(a, b) == IF a <= b THEN a ELSE b
Max(a, b) == IF a >= b THEN a ELSE b

\* target_norm in lib_norm or lib_norm in target_norm
EitherContains(a, b) == IsSubstring(a, b) \/ IsSubstring(b, a)

\* parse_zappa_list.find_match
pzl_find_match(target, library) ==
    LET target_norm == pzl_normalize(target)
        target_words == WordSet(target_norm)
        normalized == FirstIndex({t \in 1..Len(library) : pzl_normalize(library[t]) = target_norm})
        substring == FirstIndex({t \in 1..Len(library) :
                        /\ EitherContains(target_norm, pzl_normalize(library[t]))
                        /\ Len(target_norm) > 5 /\ Len(pzl_normalize(library[t])) > 5})
        \* len(common) >= max(2, len(target_words) * 0.7)
        overlap == FirstIndex({t \in 1..Len(library) :
                        LET lib_words == WordSet(pzl_normalize(library[t]))
                            common == target_words \cap lib_words
                        IN  /\ lib_words # {}
                            /\ 10 * Cardinality(common)
                                 >= Max(20, 7 * Cardinality(target_words))})
    IN  IF target \in SeqRange(library) THEN ReturnKey(target, "ExactKey")
        ELSE IF normalized # 0 THEN ReturnKey(library[normalized], "NormalizedExact")
        ELSE IF substring # 0 THEN ReturnKey(library[substring], "Substring")
        ELSE IF target_words = {} THEN ReturnNone
        ELSE IF overlap # 0 THEN ReturnKey(library[overlap], "WordOverlap")
        ELSE ReturnNone

\* score >= best_score, for the scores num / den and best.num / best.den
AtLeastBest(num, den, best) == num * best.den >= best.num * den

\* score > best_score, for the scores num / den and best.num / best.den
GreaterThanBest(num, den, best) == num * best.den > best.num * den

\* the best (lib_title, score) of zappa_comparison's word-overlap loop after the
\* first n library entries; the score is the fraction num / den
RECURSIVE zc_best_overlap(_, _, _)
zc_best_overlap(target_words, library, n) ==
    IF n = 0 THEN [index |-> 0, num |-> 0, den |-> 1]
    ELSE LET best == zc_best_overlap(target_words, library, n - 1)
             lib_words == LongWordSet(zc_normalize_title(library[n]))
             common == Cardinality(target_words \cap lib_words)
             union == Cardinality(target_words \cup lib_words)
         IN  \* score > best_score and score >= 0.6
             IF /\ lib_words # {}
                /\ union # 0
                /\ GreaterThanBest(common, union, best)
                /\ 10 * common >= 6 * union
             THEN [index |-> n, num |-> common, den |-> union]
             ELSE best

\* zappa_comparison.find_similar_in_library (the lib_title it returns)
zc_find_similar_in_library(target_title, library) ==
    LET target_norm == zc_normalize_title(target_title)
        target_words == LongWordSet(target_norm)
        normalized == FirstIndex({t \in 1..Len(library) : zc_normalize_title(library[t]) = target_norm})
        substring == FirstIndex({t \in 1..Len(library) :
                        LET lib_norm == zc_normalize_title(library[t])
                            lib_words == LongWordSet(lib_norm)
                        IN  /\ EitherContains(target_norm, lib_norm)
                            /\ Len(target_norm) > 5
                            /\ target_words # {} /\ lib_words # {}
                            /\ (target_words \subseteq lib_words
                                  \/ lib_words \subseteq target_words)})
        best == zc_best_overlap(target_words, library, Len(library))
    IN  IF target_title \in SeqRange(library) THEN ReturnKey(target_title, "ExactKey")
        ELSE IF normalized # 0 THEN ReturnKey(library[normalized], "NormalizedExact")
        ELSE IF substring # 0 THEN ReturnKey(library[substring], "Substring")
        ELSE IF target_words # {} /\ best.index # 0
             THEN ReturnKey(library[best.index], "WordOverlap")
        ELSE ReturnNone

\* find_missing_zappa.find_similar_title after the first n library entries:
\* best_match (index, 0 for None), best_score (num / den), the check that set
\* it, and whether the loop has raised ZeroDivisionError
RECURSIVE fm_best(_, _, _)
fm_best(target_norm, library, n) ==
    IF n = 0 THEN [raised |-> FALSE, index |-> 0, num |-> 0, den |-> 1, tier |-> "None"]
    ELSE LET prev == fm_best(target_norm, library, n - 1)
             lib_norm == fm_normalize_title(library[n])
             contains == EitherContains(target_norm, lib_norm)
             lo == Min(Len(target_norm), Len(lib_norm))
             hi == Max(Len(target_norm), Len(lib_norm))
             \* if score > best_score
             sub == IF contains /\ GreaterThanBest(lo, hi, prev)
                    THEN [raised |-> FALSE, index |-> n, num |-> lo, den |-> hi,
                          tier |-> "Substring"]
                    ELSE prev
             target_words == WordSet(target_norm)
             lib_words == WordSet(lib_norm)
             overlap == Cardinality(target_words \cap lib_words)
             total == Cardinality(target_words \cup lib_words)
         IN  IF prev.raised THEN prev
             \* min(...) / max(...) with both normalized strings empty
             ELSE IF contains /\ hi = 0 THEN [prev EXCEPT !.raised = TRUE]
             \* if score > best_score and score > 0.5
             ELSE IF /\ target_words # {} /\ lib_words # {}
                     /\ total > 0
                     /\ GreaterThanBest(overlap, total, sub)
                     /\ 2 * overlap > total
                  THEN [raised |-> FALSE, index |-> n, num |-> overlap, den |-> total,
                        tier |-> "WordOverlap"]
             ELSE sub

\* find_missing_zappa.find_similar_title
fm_find_similar_title(target_title, library_titles) ==
    LET target_norm == fm_normalize_title(target_title)
        best == fm_best(target_norm, library_titles, Len(library_titles))
    IN  IF best.raised THEN Raised
        \* return best_match if best_score > 0.5 else None
        ELSE IF 2 * best.num > best.den
             THEN ReturnKey(library_titles[best.index], best.tier)
        ELSE ReturnNone

\* extract_and_compare.find_match
ext_find_match(title, library) ==
    LET title_norm == ext_normalize_title(title)
        title_words == LongWordSet(title_norm)
        normalized == FirstIndex({t \in 1..Len(library) : ext_normalize_title(library[t]) = title_norm})
        substring == FirstIndex({t \in 1..Len(library) :
                        /\ EitherContains(title_norm, ext_normalize_title(library[t]))
                        /\ Len(title_norm) > 5})
        \* common and len(common) >= min(2, len(title_words) * 0.7)
        overlap == FirstIndex({t \in 1..Len(library) :
                        LET lib_words == LongWordSet(ext_normalize_title(library[t]))
                            common == title_words \cap lib_words
                        IN  /\ common # {}
                            /\ 10 * Cardinality(common)
                                 >= Min(20, 7 * Cardinality(title_words))})
    IN  IF normalized # 0 THEN ReturnKey(library[normalized], "NormalizedExact")
        ELSE IF substring # 0 THEN ReturnKey(library[substring], "Substring")
        ELSE IF title_words # {} /\ overlap # 0
             THEN ReturnKey(library[overlap], "WordOverlap")
        ELSE ReturnNone

\* the matcher of each script
FindMatch(script, title, library) ==
    CASE script = "pzl" -> pzl_find_match(title, library)
      [] script = "zc"  -> zc_find_similar_in_library(title, library)
      [] script = "fm"  -> fm_find_similar_title(title, library)
      [] script = "ext" -> ext_find_match(title, library)

----------------------------------------------------------------------------
(* Listing extractors.                                                     *)

\* number of characters before the first newline of text
RECURSIVE LineRun(_)
LineRun(text) ==
    IF text = <<>> \/ text[1] = "\n" THEN 0 ELSE 1 + LineRun(Tail(text))

\* text.split('\n')
RECURSIVE SplitLines(_)
SplitLines(text) ==
    IF LineRun(text) = Len(text) THEN <<text>>
    ELSE <<TakeN(text, LineRun(text))>> \o SplitLines(DropN(text, LineRun(text) + 1))

BookmarkMarker == <<"B","o","o","k","m","a","r","k">>

\* (.+?)(?:Bookmark|$) matched at the start of s, s not empty: the length of
\* the shortest non-empty prefix that 'Bookmark' or the end of s follows
LazyTitleLen(s) ==
    LET stops == {k \in 1..Len(s) :
                    k = Len(s) \/ StartsWith(DropN(s, k), BookmarkMarker)}
    IN  CHOOSE k \in stops : \A j \in stops : k <= j

NoLine == [matched |-> FALSE, year |-> <<>>, title |-> <<>>]

\* re.match(r'^(\d{4})\s*–\s*(.+?)(?:Bookmark|$)', line) : group(1), group(2)
MatchReleaseLine(line) ==
    IF Len(line) >= 4 /\ \A i \in 1..4 : IsDigit(line[i])
    THEN LET afterYear == LStrip(DropN(line, 4))
         IN  IF afterYear # <<>> /\ afterYear[1] = EnDash
             THEN LET rest == LStrip(Tail(afterYear))
                  IN  IF rest # <<>>
                      THEN [matched |-> TRUE, year |-> TakeN(line, 4),
                            title |-> TakeN(rest, LazyTitleLen(rest))]
                      ELSE NoLine
             ELSE NoLine
    ELSE NoLine

\* f"{year} – {title}"
ReleaseKey(year, title) == year \o <<" ", EnDash, " ">> \o title

pzl_skip_patterns ==
    << <<"UP">>,
       <<"T","o","g","g","l","e">>,
       <<"S","i","z","e">>,
       <<"S","n","a","t","c","h","e","s">>,
       <<"S","e","e","d","e","r","s">>,
       <<"L","e","e","c","h","e","r","s">>,
       <<"A","l","b","u","m","s">>,
       <<"E","P","s">>,
       <<"S","o","u","n","d","t","r","a","c","k","s">>,
       <<"L","i","v","e"," ","a","l","b","u","m","s">>,
       <<"C","o","m","p","i","l","a","t","i","o","n","s">>,
       <<"A","n","t","h","o","l","o","g","i","e","s">>,
       <<"S","i","n","g","l","e","s">>,
       <<"B","o","o","t","l","e","g","s">> >>

zc_skip_keywords ==
    << <<"UP">>,
       <<"T","o","g","g","l","e">>,
       <<"S","i","z","e">>,
       <<"S","n","a","t","c","h","e","s">>,
       <<"S","e","e","d","e","r","s">>,
       <<"L","e","e","c","h","e","r","s">>,
       <<"A","l","b","u","m","s">>,
       <<"E","P","s">>,
       <<"S","o","u","n","d","t","r","a","c","k","s">>,
       <<"A","n","t","h","o","l","o","g","i","e","s">>,
       <<"C","o","m","p","i","l","a","t","i","o","n","s">>,
       <<"L","i","v","e"," ","a","l","b","u","m","s">>,
       <<"S","i","n","g","l","e","s">>,
       <<"B","o","o","t","l","e","g","s">>,
       <<"I","n","t","e","r","v","i","e","w","s">>,
       <<"M","i","x","t","a","p","e","s">>,
       <<"D","J"," ","M","i","x","e","s">>,
       <<"C","o","n","c","e","r","t"," ","r","e","c","o","r","d","i","n","g","s">>,
       <<"U","n","k","n","o","w","n","s">>,
       <<"P","r","o","d","u","c","e","d"," ","B","y">>,
       <<"C","o","m","p","o","s","i","t","i","o","n","s">>,
       <<"G","u","e","s","t"," ","A","p","p","e","a","r","a","n","c","e","s">>,
       <<"R","e","m","i","x","e","s">> >>

fm_format_markers ==
    << <<"UP">>,
       <<"T","o","g","g","l","e">>,
       <<"S","i","z","e">>,
       <<"S","n","a","t","c","h","e","s">>,
       <<"S","e","e","d","e","r","s">>,
       <<"L","e","e","c","h","e","r","s">> >>

\* any(pattern.lower() in title.lower() for pattern in patterns)
AnyPatternIn(patterns, title) ==
    \E i \in 1..Len(patterns) : IsSubstring(Lower(patterns[i]), Lower(title))

NoRelease == [accepted |-> FALSE, year |-> <<>>, title |-> <<>>, full |-> <<>>]

Release(year, title) ==
    [accepted |-> TRUE, year |-> year, title |-> title, full |-> ReleaseKey(year, title)]

\* the body of parse_zappa_list.extract_releases' loop up to the 'seen' test:
\* the record that one line stands for, if the line is accepted
pzl_line_release(rawLine) ==
    LET m == MatchReleaseLine(Strip(rawLine))
        title == Strip(m.title)
    IN  IF ~m.matched THEN NoRelease
        ELSE IF AnyPatternIn(pzl_skip_patterns, title) THEN NoRelease
        ELSE IF title # <<>> /\ Len(title) > 2 THEN Release(m.year, title)
        ELSE NoRelease

\* the same for zappa_comparison.extract_releases_from_list
zc_line_release(rawLine) ==
    LET m == MatchReleaseLine(Strip(rawLine))
        title == Strip(m.title)
    IN  IF ~m.matched THEN NoRelease
        ELSE IF AnyPatternIn(zc_skip_keywords, title) THEN NoRelease
        ELSE IF title # <<>> /\ Len(title) > 2 THEN Release(m.year, title)
        ELSE NoRelease

\* the same for find_missing_zappa.extract_releases_from_text
fm_line_release(rawLine) ==
    LET m == MatchReleaseLine(Strip(rawLine))
        title == CollapseSpaces(Strip(m.title))
    IN  IF ~m.matched THEN NoRelease
        ELSE IF title # <<>> /\ Len(title) > 2 /\ title \notin SeqRange(fm_format_markers)
             THEN Release(m.year, title)
        ELSE NoRelease

\* the keys of a list of release records
FullNames(releases) == [i \in 1..Len(releases) |-> releases[i].full]

\* releases.append({...}) for every accepted line, seen or not
AppendAlways(releases, r) ==
    IF r.accepted
    THEN Append(releases, [year |-> r.year, title |-> r.title, full |-> r.full])
    ELSE releases

\* if key not in seen: seen.add(key); releases.append({...})
AppendUnseen(releases, r) ==
    IF r.accepted /\ r.full \notin SeqRange(FullNames(releases))
    THEN Append(releases, [year |-> r.year, title |-> r.title, full |-> r.full])
    ELSE releases

\* parse_zappa_list.extract_releases: releases after the first n lines
RECURSIVE pzl_releases_after(_, _)
pzl_releases_after(lines, n) ==
    IF n = 0 THEN <<>>
    ELSE AppendUnseen(pzl_releases_after(lines, n - 1), pzl_line_release(lines[n]))

\* parse_zappa_list.extract_releases
pzl_extract_releases(text) ==
    pzl_releases_after(SplitLines(text), Len(SplitLines(text)))

\* find_missing_zappa.extract_releases_from_text: releases after the first n lines
RECURSIVE fm_releases_after(_, _)
fm_releases_after(lines, n) ==
    IF n = 0 THEN <<>>
    ELSE AppendUnseen(fm_releases_after(lines, n - 1), fm_line_release(lines[n]))

\* find_missing_zappa.extract_releases_from_text
fm_extract_releases_from_text(text) ==
    fm_releases_after(SplitLines(text), Len(SplitLines(text)))

\* the characters in code point order (of ASCII, the backquote is left out)
CodePointOrder ==
    << "\t","\n"," ","!","\"","#","$","%","&","'","(",")",
       "*","+",",","-",".","/","0","1","2","3","4","5",
       "6","7","8","9",":",";","<","=",">","?","@","A",
       "B","C","D","E","F","G","H","I","J","K","L","M",
       "N","O","P","Q","R","S","T","U","V","W","X","Y",
       "Z","[","\\","]","^","_","a","b","c","d","e",
       "f","g","h","i","j","k","l","m","n","o","p","q",
       "r","s","t","u","v","w","x","y","z","{","|","}",
       "~","EN","EM","UP","MINUS" >>

\* the rank of a character in code point order
CodeRank(c) == CHOOSE i \in 1..Len(CodePointOrder) : CodePointOrder[i] = c

\* a < b for str
RECURSIVE StrLess(_, _)
StrLess(a, b) ==
    IF b = <<>> THEN FALSE
    ELSE IF a = <<>> THEN TRUE
    ELSE IF a[1] = b[1] THEN StrLess(Tail(a), Tail(b))
    ELSE CodeRank(a[1]) < CodeRank(b[1])

\* sorted(S) for a set of str
RECURSIVE Sorted(_)
Sorted(S) ==
    IF S = {} THEN <<>>
    ELSE LET least == CHOOSE x \in S : \A y \in S \ {x} : StrLess(x, y)
         IN  <<least>> \o Sorted(S \ {least})

\* zappa_comparison.extract_releases_from_list: the set 'releases'
zc_release_set(lines) ==
    {zc_line_release(lines[i]).full :
        i \in {j \in 1..Len(lines) : zc_line_release(lines[j]).accepted}}

\* zappa_comparison.extract_releases_from_list
zc_extract_releases_from_list(text) == Sorted(zc_release_set(SplitLines(text)))

\* what each script's extractor returns, as the list of its keys
ExtractKeys(script, text) ==
    CASE script = "pzl" -> FullNames(pzl_extract_releases(text))
      [] script = "fm"  -> FullNames(fm_extract_releases_from_text(text))
      [] script = "zc"  -> zc_extract_releases_from_list(text)

\* the record one line stands for in each script
LineRelease(script, rawLine) ==
    CASE script = "pzl" -> pzl_line_release(rawLine)
      [] script = "fm"  -> fm_line_release(rawLine)
      [] script = "zc"  -> zc_line_release(rawLine)

----------------------------------------------------------------------------
(* Catalog loaders.  A library dict is kept as the sequence of its keys in *)
(* insertion order; the values (the directory names) are only printed.     *)

\* length of the longest prefix of s whose characters are all of the class
ClassRun(s, class) ==
    LET others == {i \in 1..Len(s) : ~InClass(class, s[i])}
    IN  IF others = {} THEN Len(s)
        ELSE (CHOOSE i \in others : \A j \in others : i <= j) - 1

\* \s*\([^\)]+\) matched at the start of s: the text after the match, or
\* <<"NOMATCH">> (which is no text: no character is called NOMATCH)
NoMatch == <<"NOMATCH">>
AfterParenGroup(s) ==
    LET t == LStrip(s)
        inside == IF t = <<>> THEN <<>> ELSE Tail(t)
        n == ClassRun(inside, "[^\\)]")
    IN  IF t # <<>> /\ t[1] = "(" /\ n >= 1 /\ n < Len(inside)
        THEN DropN(inside, n + 1)
        ELSE NoMatch

\* \s*\([^\)]+\) matches at the start of s (parse_zappa_list)
pzl_TailMatches(s) == AfterParenGroup(s) # NoMatch

\* \[.*?\] matches at the start of s
StartsBracketGroup(s) ==
    /\ s # <<>> /\ s[1] = "["
    /\ \E j \in 2..Len(s) : s[j] = "]" /\ \A i \in 2..(j - 1) : s[i] # "\n"

\* \s*\([^\)]+\)\s*(?:\[.*?\]|$) matches at the start of s (zappa_comparison)
zc_TailMatches(s) ==
    /\ AfterParenGroup(s) # NoMatch
    /\ LET v == LStrip(AfterParenGroup(s))
       IN  v = <<>> \/ StartsBracketGroup(v)

\* \s*\([^\)]+\)\s*(?:\[-?\]|$) matches at the start of s (find_missing_zappa)
fm_TailMatches(s) ==
    /\ AfterParenGroup(s) # NoMatch
    /\ LET v == LStrip(AfterParenGroup(s))
       IN  v = <<>> \/ StartsWith(v, <<"[", "]">>) \/ StartsWith(v, <<"[", "-", "]">>)

\* what follows the title group in each script's directory pattern
TailMatches(script, s) ==
    CASE script = "pzl" -> pzl_TailMatches(s)
      [] script = "zc"  -> zc_TailMatches(s)
      [] script = "fm"  -> fm_TailMatches(s)

\* a pair <<kept, k>> stands for \s+ taking kept blanks and the lazy (.+?)
\* taking k characters; the backtracking search first reaches the pair with
\* the most blanks kept and then the shortest title
FirstFit(fits) ==
    CHOOSE f \in fits : \A g \in fits : \/ f[1] > g[1]
                                        \/ f[1] = g[1] /\ f[2] <= g[2]

\* the title group in the text after '#' and the number, or NoMatch
TitleGroupOf(after, fits) ==
    IF fits = {} THEN NoMatch
    ELSE SubSeq(after, FirstFit(fits)[1] + 1, FirstFit(fits)[1] + FirstFit(fits)[2])

TitleGroupAfterNumber(script, after) ==
    TitleGroupOf(after, {f \in (1..SpaceRun(after)) \X (1..Len(after)) :
                            /\ f[1] + f[2] <= Len(after)
                            /\ TailMatches(script, DropN(after, f[1] + f[2]))})

\* re.match(r'#\d+[-\d]*\s+(.+?)<tail>', item).group(1), or NoMatch
FolderTitleGroup(script, item) ==
    IF Len(item) >= 2 /\ item[1] = "#" /\ IsDigit(item[2])
    THEN TitleGroupAfterNumber(script, DropN(item, 1 + ClassRun(Tail(item), "[-\\d]")))
    ELSE NoMatch

\* item.split(None, 1)[1] when the split has two parts, else NoMatch
SecondPart(item) ==
    LET t == LStrip(item)
        rest == LStrip(DropN(t, WordRun(t)))
    IN  IF rest = <<>> THEN NoMatch ELSE rest

\* s.split('(')[0]
BeforeParen(s) == TakeN(s, ClassRun(s, "[^(]"))

\* re.sub(r'\[.*?\]', '', s)
RECURSIVE RemoveBracketGroups(_)
RemoveBracketGroups(s) ==
    IF s = <<>> THEN <<>>
    ELSE IF StartsBracketGroup(s)
         THEN LET close == CHOOSE j \in 2..Len(s) :
                              s[j] = "]" /\ \A i \in 2..(j - 1) : s[i] # "]"
              IN  RemoveBracketGroups(DropN(s, close))
    ELSE <<s[1]>> \o RemoveBracketGroups(Tail(s))

\* re.sub(pattern ending in $, '', s) : s up to the leftmost of the positions
\* (starts) at which the pattern matches, s itself if there is none
CutAtLeftmost(s, starts) ==
    IF starts = {} THEN s
    ELSE TakeN(s, CHOOSE i \in starts : \A j \in starts : i <= j)

\* \s*\([^\)]+\)\s*$ matches all of s
IsParenGroupToEnd(s) ==
    AfterParenGroup(s) # NoMatch /\ LStrip(AfterParenGroup(s)) = <<>>

\* \s*\[.*?\]\s*$ matches all of s
IsBracketGroupToEnd(s) ==
    LET t == LStrip(s)
        u == RStrip(t)
    IN  /\ Len(u) >= 2 /\ u[1] = "[" /\ u[Len(u)] = "]"
        /\ \A i \in 2..(Len(u) - 1) : u[i] # "\n"

\* library[title] = item for the pattern's title group, else the fallback
StoredTitle(group, fallback) ==
    IF group # NoMatch THEN [stored |-> TRUE, title |-> Strip(group)] ELSE fallback

\* if title: library[title] = item
StoredIfAny(title) == [stored |-> title # <<>>, title |-> title]

\* parse_zappa_list: parts[1].split('(')[0].strip() if len(parts) > 1
pzl_fallback_title(part) ==
    IF part = NoMatch THEN [stored |-> FALSE, title |-> <<>>]
    ELSE StoredIfAny(Strip(BeforeParen(part)))

\* zappa_comparison: re.sub(r'\[.*?\]', '', parts[1].split('(')[0].strip()).strip()
zc_fallback_title(part) ==
    IF part = NoMatch THEN [stored |-> FALSE, title |-> <<>>]
    ELSE StoredIfAny(Strip(RemoveBracketGroups(Strip(BeforeParen(part)))))

\* re.sub(r'\s*\([^\)]+\)\s*$', '', s)
CutParenGroup(s) ==
    CutAtLeftmost(s, {i \in 0..Len(s) : IsParenGroupToEnd(DropN(s, i))})

\* re.sub(r'\s*\[.*?\]\s*$', '', s)
CutBracketGroup(s) ==
    CutAtLeftmost(s, {i \in 0..Len(s) : IsBracketGroupToEnd(DropN(s, i))})

\* find_missing_zappa: the two re.sub of parts[1], then strip()
fm_fallback_title(part) ==
    IF part = NoMatch THEN [stored |-> FALSE, title |-> <<>>]
    ELSE StoredIfAny(Strip(CutBracketGroup(CutParenGroup(part))))

\* the key parse_zappa_list.get_library_releases stores for one directory
pzl_folder_title(item) ==
    StoredTitle(FolderTitleGroup("pzl", item), pzl_fallback_title(SecondPart(item)))

\* the key zappa_comparison.get_library_releases stores for one directory
zc_folder_title(item) ==
    StoredTitle(FolderTitleGroup("zc", item), zc_fallback_title(SecondPart(item)))

\* the key find_missing_zappa.get_library_releases stores for one directory
fm_folder_title(item) ==
    StoredTitle(FolderTitleGroup("fm", item), fm_fallback_title(SecondPart(item)))

\* the key each script stores for one directory
FolderTitle(script, item) ==
    CASE script = "pzl" -> pzl_folder_title(item)
      [] script = "zc"  -> zc_folder_title(item)
      [] script = "fm"  -> fm_folder_title(item)

\* library[title] = item : a new key goes last, a known key keeps its place
StoreKey(keys, entry) ==
    IF entry.stored /\ entry.title \notin SeqRange(keys)
    THEN Append(keys, entry.title)
    ELSE keys

\* get_library_releases: the keys after the first n directories of os.listdir
RECURSIVE get_library_releases(_, _, _)
get_library_releases(script, items, n) ==
    IF n = 0 THEN <<>>
    ELSE StoreKey(get_library_releases(script, items, n - 1),
                  FolderTitle(script, items[n]))

----------------------------------------------------------------------------
(* The comparison loops.                                                   *)

\* what each script's extractor returns: records (pzl, fm) or keys (zc)
ExtractReleases(s, listing) ==
    CASE s = "pzl" -> pzl_extract_releases(listing)
      [] s = "fm"  -> fm_extract_releases_from_text(listing)
      [] s = "zc"  -> zc_extract_releases_from_list(listing)

\* zappa_comparison.main: re.match(r'\d{4}\s*–\s*(.+)', release), then
\* group(1).strip(), or the release itself without a match
zc_release_title(release) ==
    LET afterYear == LStrip(DropN(release, 4))
        afterDash == IF afterYear = <<>> THEN <<>> ELSE Tail(afterYear)
    IN  IF /\ Len(release) >= 4 /\ \A i \in 1..4 : IsDigit(release[i])
           /\ afterYear # <<>> /\ afterYear[1] = EnDash
           /\ afterDash # <<>>
        THEN Strip(afterDash)
        ELSE release

\* if match: / if similar_title: / if similar:
Truthy(answer) == answer.outcome = "key" /\ answer.key # <<>>

\* f"{full_name} (matched with: {similar})"
MatchedWith(full_name, similar) ==
    full_name \o <<" ","(","m","a","t","c","h","e","d"," ","w","i","t","h",":"," ">>
              \o similar \o <<")">>

\* the title and the key of release i of list_releases
ReleaseTitle(s, rels, i) == IF s = "zc" THEN zc_release_title(rels[i]) ELSE rels[i].title
ReleaseFull(s, rels, i) == IF s = "zc" THEN rels[i] ELSE rels[i].full

\* the answer of each script's lookup of one title: find_missing_releases
\* tests 'title in library_releases' before it calls find_similar_title
Lookup(s, title, keys) ==
    IF s = "fm" /\ title \in SeqRange(keys) THEN ReturnKey(title, "ExactKey")
    ELSE FindMatch(s, title, keys)

\* the entry a script appends to found for a release and a truthy answer
FoundEntry(s, full, answer) ==
    IF s = "fm" /\ answer.tier # "ExactKey" THEN MatchedWith(full, answer.key) ELSE full

----------------------------------------------------------------------------
(* Normalizing a title, and normalizing the result again.                  *)

\* the longest title is made of this many pieces
MaxTokens == 3

\* pieces of titles: a year, dashes, whitespace, letters, punctuation, a slash
\* and the ' bookmark' marker of the listing
TitleTokens ==
    { <<"1","9","7","9">>, <<"-">>, <<" ">>, <<"!">>, <<"/">>, <<"A">>, <<"x">>,
      <<" ","b","o","o","k","m","a","r","k">> }

RECURSIVE Concat(_)
Concat(parts) == IF parts = <<>> THEN <<>> ELSE parts[1] \o Concat(Tail(parts))

Titles ==
    UNION { {Concat(p) : p \in [1..n -> TitleTokens]} : n \in 0..MaxTokens }

Scripts == {"pzl", "zc", "fm", "ext"}

IdleNormalize ==
    /\ nScript = "none"
    /\ nTitle = <<>>
    /\ nOnce = <<>>
    /\ nTwice = <<>>
    /\ nPc = "idle"

InitNormalize ==
    /\ nScript \in Scripts
    /\ nTitle \in Titles
    /\ nOnce = <<>>
    /\ nTwice = <<>>
    /\ nPc = "raw"

\* normalized = normalize_title(title)
NormalizeOnce ==
    /\ nPc = "raw"
    /\ nOnce' = Normalize(nScript, nTitle)
    /\ nPc' = "once"
    /\ UNCHANGED <<nScript, nTitle, nTwice, matchVars, extractVars, runVars, mediaVars>>

\* normalize_title(normalized)
NormalizeTwice ==
    /\ nPc = "once"
    /\ nTwice' = Normalize(nScript, nOnce)
    /\ nPc' = "twice"
    /\ UNCHANGED <<nScript, nTitle, nOnce, matchVars, extractVars, runVars, mediaVars>>

----------------------------------------------------------------------------
(* One call of a script's matcher on a title and a library.                *)

\* the largest library has this many keys
MaxCatalog == 2

HotRats == <<"H","o","t"," ","R","a","t","s">>
HotRatsLower == <<"h","o","t"," ","r","a","t","s">>
Hot == <<"H","o","t">>
Hots == <<"H","o","t","s">>
GuitarII == <<"G","u","i","t","a","r"," ","I","I">>
YerGuitar == <<"Y","e","r"," ","G","u","i","t","a","r">>
Bangs == <<"!","!","!">>
Queries == <<"?","?","?">>
JoesGarage == <<"J","o","e","'","s"," ","G","a","r","a","g","e">>
JoesGarageActI ==
    <<"J","o","e","'","s"," ","G","a","r","a","g","e",":"," ","A","c","t"," ","I">>
JoesGarageActs ==
    <<"J","o","e","'","s"," ","G","a","r","a","g","e"," ","A","c","t","s"," ",
      "I",","," ","I","I"," ","&"," ","I","I","I">>
FreakOut == <<"F","r","e","a","k"," ","O","u","t","!">>
ActIJoesGarage ==
    <<"A","c","t"," ","I",":"," ","J","o","e","'","s"," ","G","a","r","a","g","e">>
IGuitar == <<"I"," ","G","u","i","t","a","r">>
IIGuitar == <<"I","I"," ","G","u","i","t","a","r">>

\* titles of the listing and of the library
TitlePool ==
    { HotRats, HotRatsLower, Hot, Hots, GuitarII, YerGuitar, Bangs, Queries,
      JoesGarage, JoesGarageActI, JoesGarageActs, FreakOut, ActIJoesGarage,
      IGuitar, IIGuitar }

\* the sequences without repetition of at most n elements of S
DistinctSeqs(S, n) ==
    { q \in UNION { [1..k -> S] : k \in 0..n } :
        \A i, j \in 1..Len(q) : i # j => q[i] # q[j] }

IdleMatch ==
    /\ mScript = "none"
    /\ mQuery = <<>>
    /\ mLibrary = <<>>
    /\ mResult = ReturnNone
    /\ mPc = "idle"

InitMatch ==
    /\ mScript \in Scripts
    /\ mQuery \in TitlePool
    /\ mLibrary \in DistinctSeqs(TitlePool, MaxCatalog)
    /\ mResult = ReturnNone
    /\ mPc = "call"

\* titles that tie in the scoring loops of zc and fm
TiePool ==
    { HotRats, JoesGarage, JoesGarageActI, ActIJoesGarage, GuitarII, IGuitar, IIGuitar }

ScoringScripts == {"zc", "fm"}

InitTies ==
    /\ mScript \in ScoringScripts
    /\ mQuery \in TiePool
    /\ mLibrary \in DistinctSeqs(TiePool, MaxCatalog)
    /\ mResult = ReturnNone
    /\ mPc = "call"

\* find_match(title, library) returns or raises
Match ==
    /\ mPc = "call"
    /\ mResult' = FindMatch(mScript, mQuery, mLibrary)
    /\ mPc' = "returned"
    /\ UNCHANGED <<mScript, mQuery, mLibrary, normVars, extractVars, runVars, mediaVars>>

----------------------------------------------------------------------------
(* One call of a script's listing extractor on a text.                     *)

\* the longest listing has this many lines
MaxLines == 3

\* 1966 (en dash) Freak Out!Bookmark
LineFreakOut ==
    <<"1","9","6","6"," ","EN"," ","F","r","e","a","k"," ","O","u","t",
      "!","B","o","o","k","m","a","r","k">>
\* 1979 (en dash) Joe's Garage: Act IBookmark
LineJoesGarageActI ==
    <<"1","9","7","9"," ","EN"," ","J","o","e","'","s"," ","G","a","r",
      "a","g","e",":"," ","A","c","t"," ","I","B","o","o","k","m","a",
      "r","k">>
\* 1975 (en dash) One Size Fits AllBookmark
LineOneSizeFitsAll ==
    <<"1","9","7","5"," ","EN"," ","O","n","e"," ","S","i","z","e"," ",
      "F","i","t","s"," ","A","l","l","B","o","o","k","m","a","r","k">>
\* 1975 (en dash) toggle
LineToggleLower ==
    <<"1","9","7","5"," ","EN"," ","t","o","g","g","l","e">>
\* 1975 (en dash) SizeBookmark
LineSize ==
    <<"1","9","7","5"," ","EN"," ","S","i","z","e","B","o","o","k","m",
      "a","r","k">>
\* 1970 (en dash) Up, with blanks around it
LineUp ==
    <<" "," ","1","9","7","0"," ","EN"," ","U","p"," "," ">>
\* Albums
LineAlbums ==
    <<"A","l","b","u","m","s">>
\* 1999 (en dash) !!!
LineBangs ==
    <<"1","9","9","9"," ","EN"," ","!","!","!">>

\* lines of a listing: releases, a title that contains a noise word, noise
\* words, a short title, a section header
LinePool ==
    { LineFreakOut, LineJoesGarageActI, LineOneSizeFitsAll, LineToggleLower,
      LineSize, LineUp, LineAlbums }

\* '\n'.join(lines)
RECURSIVE JoinLines(_)
JoinLines(lines) ==
    IF lines = <<>> THEN <<>>
    ELSE IF Len(lines) = 1 THEN lines[1]
    ELSE lines[1] \o <<"\n">> \o JoinLines(Tail(lines))

\* the listing texts of at most n lines of the pool
Texts(pool, n) == UNION { {JoinLines(ls) : ls \in [1..k -> pool]} : k \in 0..n }

ExtractScripts == {"pzl", "zc", "fm"}

IdleExtract ==
    /\ eScript = "none"
    /\ eText = <<>>
    /\ eOut = <<>>
    /\ ePc = "idle"

InitExtract ==
    /\ eScript \in ExtractScripts
    /\ eText \in Texts(LinePool, MaxLines)
    /\ eOut = <<>>
    /\ ePc = "call"

\* list_releases = extract_releases(list_text)
Extract ==
    /\ ePc = "call"
    /\ eOut' = ExtractKeys(eScript, eText)
    /\ ePc' = "returned"
    /\ UNCHANGED <<eScript, eText, normVars, matchVars, runVars, mediaVars>>

----------------------------------------------------------------------------
(* One run of a script: extract the listing, read the library folder,      *)
(* compare release by release.                                             *)

\* the longest listing of a run has this many lines
MaxRunLines == 2
\* the library folder of a run holds at most this many directories
MaxFolders == 2

\* #1 Freak Out! (February 1966)
DirFreakOut ==
    <<"#","1"," ","F","r","e","a","k"," ","O","u","t","!"," ","(","F",
      "e","b","r","u","a","r","y"," ","1","9","6","6",")">>
\* #28-29 Joe's Garage Acts I, II & III (September 1979)
DirJoesGarage ==
    <<"#","2","8","-","2","9"," ","J","o","e","'","s"," ","G","a","r",
      "a","g","e"," ","A","c","t","s"," ","I",","," ","I","I"," ","&",
      " ","I","I","I"," ","(","S","e","p","t","e","m","b","e","r"," ",
      "1","9","7","9",")">>
\* #5   (May 1999), a directory whose title is blank
DirBlank ==
    <<"#","5"," "," "," ","(","M","a","y"," ","1","9","9","9",")">>
\* #8 Hot Rats [FLAC], a directory without a date
DirHotRats ==
    <<"#","8"," ","H","o","t"," ","R","a","t","s"," ","[","F","L","A",
      "C","]">>
\* README, a directory no pattern parses
DirReadme ==
    <<"R","E","A","D","M","E">>

FolderPool == { DirFreakOut, DirJoesGarage, DirBlank, DirHotRats, DirReadme }

RunLinePool == { LineFreakOut, LineJoesGarageActI, LineOneSizeFitsAll, LineBangs }

\* a listing file: every line ends with a newline
RECURSIVE ListingText(_)
ListingText(lines) ==
    IF lines = <<>> THEN <<>>
    ELSE lines[1] \o <<"\n">> \o ListingText(Tail(lines))

IdleRun ==
    /\ rScript = "none"
    /\ rText = <<>>
    /\ rFolders = <<>>
    /\ rReleases = <<>>
    /\ rLibrary = <<>>
    /\ rAnswers = <<>>
    /\ rFound = <<>>
    /\ rMissing = <<>>
    /\ rPc = "idle"

InitRun ==
    /\ rScript \in ExtractScripts
    /\ rText \in UNION { {ListingText(ls) : ls \in [1..k -> RunLinePool]} : k \in 0..MaxRunLines }
    /\ rFolders \in DistinctSeqs(FolderPool, MaxFolders)
    /\ rReleases = <<>>
    /\ rLibrary = <<>>
    /\ rAnswers = <<>>
    /\ rFound = <<>>
    /\ rMissing = <<>>
    /\ rPc = "extract"

\* list_releases = extract_releases(list_text)
ExtractListing ==
    /\ rPc = "extract"
    /\ rReleases' = ExtractReleases(rScript, rText)
    /\ rPc' = "load"
    /\ UNCHANGED <<rScript, rText, rFolders, rLibrary, rAnswers, rFound, rMissing>>
    /\ UNCHANGED <<normVars, matchVars, extractVars, mediaVars>>

\* library = get_library_releases(library_path)
LoadLibrary ==
    /\ rPc = "load"
    /\ rLibrary' = get_library_releases(rScript, rFolders, Len(rFolders))
    /\ rPc' = "compare"
    /\ UNCHANGED <<rScript, rText, rFolders, rReleases, rAnswers, rFound, rMissing>>
    /\ UNCHANGED <<normVars, matchVars, extractVars, mediaVars>>

\* one pass of 'for release in list_releases', for the next release
CompareRelease ==
    /\ rPc = "compare"
    /\ Len(rAnswers) < Len(rReleases)
    /\ \E i \in {Len(rAnswers) + 1} :
       \E full \in {ReleaseFull(rScript, rReleases, i)} :
       \E answer \in {Lookup(rScript, ReleaseTitle(rScript, rReleases, i), rLibrary)} :
           /\ rAnswers' = Append(rAnswers, answer)
           /\ IF answer.outcome = "raised"
              THEN rPc' = "raised" /\ UNCHANGED <<rFound, rMissing>>
              ELSE /\ rPc' = rPc
                   /\ IF Truthy(answer)
                      THEN /\ rFound' = Append(rFound, FoundEntry(rScript, full, answer))
                           /\ UNCHANGED rMissing
                      ELSE /\ rMissing' = Append(rMissing, full)
                           /\ UNCHANGED rFound
    /\ UNCHANGED <<rScript, rText, rFolders, rReleases, rLibrary>>
    /\ UNCHANGED <<normVars, matchVars, extractVars, mediaVars>>

\* the loop ends: the lists are reported
FinishRun ==
    /\ rPc = "compare"
    /\ Len(rAnswers) = Len(rReleases)
    /\ rPc' = "done"
    /\ UNCHANGED <<rScript, rText, rFolders, rReleases, rLibrary, rAnswers, rFound, rMissing>>
    /\ UNCHANGED <<normVars, matchVars, extractVars, mediaVars>>

----------------------------------------------------------------------------
(* Path normalizers: _normalize_path of scripts/generate_track_links.py    *)
(* (sgtl), normalize_path of update_library_durations.py (uld),            *)
(* normalize_path_for_lookup of scripts/create_comprehensive_library.py    *)
(* (ccl), the path conversion in export_track_durations.py (etd) and       *)
(* convert_to_dropbox_path of generate_track_links.py (gtl).               *)

\* path.replace('\\', '/')
SlashesForward(path) ==
    [i \in 1..Len(path) |-> IF path[i] = "\\" THEN "/" ELSE path[i]]

\* normalized.replace('//', '/'): the pairs are replaced from the left
\* s.find(sub): the lowest index (from 0) at which sub occurs in s, -1 if none
Find(s, sub) ==
    IF IsSubstring(sub, s)
    THEN (CHOOSE i \in 1..(Len(s) + 1) :
             /\ StartsWith(DropN(s, i - 1), sub)
             /\ \A j \in 1..(i - 1) : ~StartsWith(DropN(s, j - 1), sub)) - 1
    ELSE -1

RECURSIVE ReplaceDoubleSlash(_)
ReplaceDoubleSlash(s) ==
    IF ~IsSubstring(<<"/", "/">>, s) THEN s
    ELSE TakeN(s, Find(s, <<"/", "/">>)) \o <<"/">>
             \o ReplaceDoubleSlash(DropN(s, Find(s, <<"/", "/">>) + 2))

\* while '//' in normalized: normalized = normalized.replace('//', '/')
RECURSIVE CollapseSlashes(_)
CollapseSlashes(s) ==
    IF IsSubstring(<<"/", "/">>, s) THEN CollapseSlashes(ReplaceDoubleSlash(s)) ELSE s

\* '/dropbox' and '/dropbox/'
DropboxRoot == <<"/","d","r","o","p","b","o","x">>
DropboxMarker == DropboxRoot \o <<"/">>

\* if dropbox_idx != -1: normalized = normalized[dropbox_idx + len('/dropbox'):]
AfterDropbox(normalized) ==
    IF Find(Lower(normalized), DropboxMarker) # -1
    THEN DropN(normalized, Find(Lower(normalized), DropboxMarker) + Len(DropboxRoot))
    ELSE normalized

\* the path as it is, whatever its first character
NoLeadingSlash(normalized) == normalized

\* if not normalized.startswith('/'): normalized = '/' + normalized
LeadingSlash(normalized) ==
    IF StartsWith(normalized, <<"/">>) THEN normalized ELSE <<"/">> \o normalized

\* scripts/generate_track_links._normalize_path, after strip, replace and
\* the while loop
sgtl_from_collapsed(normalized) ==
    LeadingSlash(IF StartsWith(Lower(normalized), <<"c", ":", "/">>)
                 THEN AfterDropbox(normalized) ELSE normalized)

\* scripts/generate_track_links._normalize_path
sgtl_normalize_path(path) ==
    sgtl_from_collapsed(CollapseSlashes(SlashesForward(Strip(path))))

\* update_library_durations.normalize_path
uld_normalize_path(path) == LeadingSlash(SlashesForward(path))

\* normalized.startswith('C:/') or normalized.startswith('c:/')
StartsWithDriveC(normalized) ==
    StartsWith(normalized, <<"C", ":", "/">>) \/ StartsWith(normalized, <<"c", ":", "/">>)

\* '/Apps/ZappaVault/ZappaLibrary'
LibraryPrefix ==
    <<"/","A","p","p","s","/","Z","a","p","p","a","V","a","u","l","t",
      "/","Z","a","p","p","a","L","i","b","r","a","r","y">>

\* normalize_path_for_lookup: the library prefix is removed, a slash leads
WithoutLibraryPrefix(normalized) ==
    IF StartsWith(normalized, LibraryPrefix)
    THEN LeadingSlash(DropN(normalized, Len(LibraryPrefix)))
    ELSE normalized

\* normalize_path_for_lookup after the replace
ccl_from_forward(normalized) ==
    WithoutLibraryPrefix(LeadingSlash(IF StartsWithDriveC(normalized)
                                      THEN AfterDropbox(normalized) ELSE normalized))

\* scripts/create_comprehensive_library.normalize_path_for_lookup
ccl_normalize_path_for_lookup(file_path) == ccl_from_forward(SlashesForward(file_path))

\* 'zappalibrary', '/Apps/ZappaVault/', 'apps/zappavault/zappalibrary', '/Apps/'
ZappaLibraryLower == <<"z","a","p","p","a","l","i","b","r","a","r","y">>
AppsZappaVault == <<"/","A","p","p","s","/","Z","a","p","p","a","V","a","u","l","t","/">>
AppsLibraryLower ==
    <<"a","p","p","s","/","z","a","p","p","a","v","a","u","l","t","/">> \o ZappaLibraryLower
AppsRoot == <<"/","A","p","p","s","/">>

\* normalized[idx:] for the first occurrence of word in normalized.lower(),
\* after the prefix given; normalized itself if there is none
FromWord(normalized, word, prefix) ==
    IF Find(Lower(normalized), word) # -1
    THEN prefix \o DropN(normalized, Find(Lower(normalized), word))
    ELSE normalized

\* the drive branch of export_durations_to_json
etd_drive_path(normalized) ==
    IF Find(Lower(normalized), DropboxMarker) # -1
    THEN AfterDropbox(normalized)
    ELSE FromWord(normalized, ZappaLibraryLower, AppsZappaVault)

\* export_track_durations.export_durations_to_json: normalized_path, after
\* the first replace
etd_from_forward(normalized) ==
    SlashesForward(LeadingSlash(IF StartsWithDriveC(normalized)
                                THEN etd_drive_path(normalized) ELSE normalized))

\* export_track_durations.export_durations_to_json: normalized_path
etd_normalized_path(file_path) == etd_from_forward(SlashesForward(file_path))

\* the drive branch of convert_to_dropbox_path
gtl_drive_path(normalized) ==
    IF Find(Lower(normalized), DropboxMarker) # -1
    THEN AfterDropbox(normalized)
    ELSE FromWord(normalized, AppsLibraryLower, <<>>)

\* generate_track_links.convert_to_dropbox_path after the replace
gtl_from_forward(normalized) ==
    IF StartsWith(normalized, AppsRoot) THEN normalized
    ELSE LeadingSlash(IF StartsWithDriveC(normalized)
                      THEN gtl_drive_path(normalized) ELSE normalized)

\* generate_track_links.convert_to_dropbox_path
gtl_convert_to_dropbox_path(file_path) == gtl_from_forward(SlashesForward(file_path))

\* the path normalizer of each script
NormalizePath(script, path) ==
    CASE script = "sgtl" -> sgtl_normalize_path(path)
      [] script = "uld"  -> uld_normalize_path(path)
      [] script = "ccl"  -> ccl_normalize_path_for_lookup(path)
      [] script = "etd"  -> etd_normalized_path(path)
      [] script = "gtl"  -> gtl_convert_to_dropbox_path(path)

----------------------------------------------------------------------------
(* The duration index and its lookups.  A dict is the sequence of its      *)
(* <<key, value>> items in insertion order; a value stored under a key     *)
(* that is present replaces the old one in place.  duration_seconds is     *)
(* counted in half milliseconds, so that int(duration_seconds * 1000) is   *)
(* the count divided by two, rounded down.                                 *)

\* key in d
HasKey(d, key) == \E i \in 1..Len(d) : d[i][1] = key

\* d[key], for a key of d
ValueOf(d, key) == d[CHOOSE i \in 1..Len(d) : d[i][1] = key][2]

\* d.get(key): None is kept as 0, both are falsy
GetOrNone(d, key) == IF HasKey(d, key) THEN ValueOf(d, key) ELSE 0

\* d[key] = value
SetItem(d, key, value) ==
    IF HasKey(d, key)
    THEN [i \in 1..Len(d) |-> IF d[i][1] = key THEN <<key, value>> ELSE d[i]]
    ELSE Append(d, <<key, value>>)

\* durations[path] = duration_ms; durations[path.lower()] = duration_ms
SetBothCases(d, path, duration_ms) ==
    SetItem(SetItem(d, path, duration_ms), Lower(path), duration_ms)

\* int(duration_seconds)
WholeSeconds(halfMs) == halfMs \div 2000

\* int(duration_seconds * 1000)
DurationMs(halfMs) == halfMs \div 2

\* export_track_durations.export_durations_to_json: the dict written, from
\* the rows <<file_path, duration_seconds>> of the table
RECURSIVE etd_export_durations(_, _)
etd_export_durations(rows, d) ==
    IF rows = <<>> THEN d
    ELSE etd_export_durations(Tail(rows),
             IF rows[1][2] > 0
             THEN SetBothCases(d, etd_normalized_path(rows[1][1]), DurationMs(rows[1][2]))
             ELSE d)

\* create_comprehensive_library.load_durations_from_db
RECURSIVE ccl_load_durations(_, _)
ccl_load_durations(rows, d) ==
    IF rows = <<>> THEN d
    ELSE ccl_load_durations(Tail(rows),
             IF rows[1][2] > 0
             THEN SetBothCases(d, ccl_normalize_path_for_lookup(rows[1][1]),
                               DurationMs(rows[1][2]))
             ELSE d)

\* s.split('/')[-1] if '/' in s else s
RECURSIVE LastSegment(_)
LastSegment(s) ==
    IF ~IsSubstring(<<"/">>, s) THEN s
    ELSE LastSegment(DropN(s, Find(s, <<"/">>) + 1))

\* the value of the first item of d whose key has the file name given, in
\* any case; 0 if there is none
FirstByFileName(d, file_name) ==
    IF \E i \in 1..Len(d) : Lower(LastSegment(d[i][1])) = Lower(file_name)
    THEN d[CHOOSE i \in 1..Len(d) :
               /\ Lower(LastSegment(d[i][1])) = Lower(file_name)
               /\ \A j \in 1..(i - 1) : Lower(LastSegment(d[j][1])) # Lower(file_name)][2]
    ELSE 0

\* find_duration after normalize_path
uld_find_normalized(normalized, durations) ==
    IF HasKey(durations, normalized) THEN ValueOf(durations, normalized)
    ELSE IF HasKey(durations, Lower(normalized)) THEN ValueOf(durations, Lower(normalized))
    ELSE IF LastSegment(normalized) # <<>>
         THEN FirstByFileName(durations, LastSegment(normalized))
         ELSE 0

\* update_library_durations.find_duration
uld_find_duration(file_path, durations) ==
    uld_find_normalized(uld_normalize_path(file_path), durations)

\* str.rstrip('/')
RECURSIVE WithoutTrailingSlashes(_)
WithoutTrailingSlashes(s) ==
    IF s # <<>> /\ s[Len(s)] = "/" THEN WithoutTrailingSlashes(TakeN(s, Len(s) - 1)) ELSE s

\* Path(file_path).name, for a path written with '/' and without '.' segments
PathName(file_path) == LastSegment(WithoutTrailingSlashes(file_path))

\* the value of the first item of d whose key ends with filename, as it is
\* or with both in lower case; 0 if there is none
FirstBySuffix(d, filename) ==
    IF \E i \in 1..Len(d) :
           EndsWith(d[i][1], filename) \/ EndsWith(Lower(d[i][1]), Lower(filename))
    THEN d[CHOOSE i \in 1..Len(d) :
               /\ EndsWith(d[i][1], filename) \/ EndsWith(Lower(d[i][1]), Lower(filename))
               /\ \A j \in 1..(i - 1) :
                      ~(EndsWith(d[j][1], filename)
                            \/ EndsWith(Lower(d[j][1]), Lower(filename)))][2]
    ELSE 0

\* get_duration_for_track after normalize_path_for_lookup
ccl_get_normalized(file_path, normalized, durations) ==
    IF GetOrNone(durations, normalized) # 0 THEN GetOrNone(durations, normalized)
    ELSE IF GetOrNone(durations, Lower(normalized)) # 0
         THEN GetOrNone(durations, Lower(normalized))
    ELSE FirstBySuffix(durations, PathName(file_path))

\* create_comprehensive_library.get_duration_for_track; a track is a record
\* of filePath and durationMs, a missing durationMs is 0
ccl_get_duration_for_track(track, durations) ==
    IF track.durationMs > 0 THEN track.durationMs
    ELSE IF track.filePath = <<>> THEN 0
    ELSE ccl_get_normalized(track.filePath,
                            ccl_normalize_path_for_lookup(track.filePath), durations)

-----------------------------------------------------------------------------
(* The duration merges: update_library_durations (uld) reads the index     *)
(* that export_track_durations wrote and rewrites the library file;        *)
(* create_comprehensive_library (ccl) reads the rows itself and writes a   *)
(* second file.  A track is a record of filePath and durationMs, an album  *)
(* a record of tracks and totalDurationMs, a library a record of albums,   *)
(* totalDurationMs and hasDurations; a missing number is 0 and a missing   *)
(* flag FALSE.                                                             *)

\* the index a script reads: track_durations.json as export_track_durations
\* wrote it (uld), the dict of load_durations_from_db (ccl)
LoadDurations(script, rows) ==
    IF script = "uld" THEN etd_export_durations(rows, <<>>)
    ELSE ccl_load_durations(rows, <<>>)

\* the lookup of a script for a track
FindDuration(script, track, durations) ==
    IF script = "uld" THEN uld_find_duration(track.filePath, durations)
    ELSE ccl_get_duration_for_track(track, durations)

\* update_library_durations: duration_ms of a track, 0 when the track has no
\* filePath
uld_duration_ms(track, durations) ==
    IF track.filePath # <<>> THEN uld_find_duration(track.filePath, durations) ELSE 0

\* track['durationMs'] = duration_ms, whatever was found
SetAlways(track, duration_ms) == [track EXCEPT !.durationMs = duration_ms]

\* if duration_ms > 0: track['durationMs'] = duration_ms
SetIfPositive(track, duration_ms) ==
    IF duration_ms > 0 THEN [track EXCEPT !.durationMs = duration_ms] ELSE track

RECURSIVE SumSeq(_)
SumSeq(numbers) == IF numbers = <<>> THEN 0 ELSE numbers[1] + SumSeq(Tail(numbers))

\* album_duration after the loop over the tracks of an album
uld_album_duration(tracks, durations) ==
    SumSeq([i \in 1..Len(tracks) |->
               IF uld_duration_ms(tracks[i], durations) > 0
               THEN uld_duration_ms(tracks[i], durations) ELSE 0])

\* if album_duration > 0: album['totalDurationMs'] = album_duration
uld_album_total(album, album_duration) ==
    IF album_duration > 0 THEN album_duration ELSE album.totalDurationMs

\* update_library_durations: one pass of 'for album in library['albums']'
uld_merge_album(album, durations) ==
    [tracks |-> [i \in 1..Len(album.tracks) |->
                    SetIfPositive(album.tracks[i],
                                  uld_duration_ms(album.tracks[i], durations))],
     totalDurationMs |-> uld_album_total(album,
                                         uld_album_duration(album.tracks, durations))]

\* create_comprehensive_library: one pass of 'for album in ...': the album
\* keeps its other fields
ccl_merge_album(album, durations) ==
    [album EXCEPT !.tracks =
        [i \in 1..Len(album.tracks) |->
            SetIfPositive(album.tracks[i],
                          ccl_get_duration_for_track(album.tracks[i], durations))]]

\* the tracks of an album counted in updated_count: old_duration == 0 and
\* new_duration > 0
ccl_updated_in(tracks, durations) ==
    Cardinality({i \in 1..Len(tracks) :
                    /\ tracks[i].durationMs = 0
                    /\ ccl_get_duration_for_track(tracks[i], durations) > 0})

MergeAlbum(script, album, durations) ==
    IF script = "uld" THEN uld_merge_album(album, durations)
    ELSE ccl_merge_album(album, durations)

\* what a finished run writes: library['totalDurationMs'] = total_duration
\* (uld), library['hasDurations'] = updated_count > 0 (ccl)
FinishedLibrary(script, library, total_duration, updated_count) ==
    IF script = "uld" THEN [library EXCEPT !.totalDurationMs = total_duration]
    ELSE [library EXCEPT !.hasDurations = updated_count > 0]

-----------------------------------------------------------------------------
(* Links: the URL conversions of generate_track_links.py (gtl) and         *)
(* scripts/generate_track_links.py (sgtl).  A shared URL has no fragment,  *)
(* no ';' parameters and no character that urlencode would escape.         *)

\* s.replace(old, new), for a non-empty old
RECURSIVE ReplaceAll(_, _, _)
ReplaceAll(s, old, new) ==
    IF ~IsSubstring(old, s) THEN s
    ELSE TakeN(s, Find(s, old)) \o new \o ReplaceAll(DropN(s, Find(s, old) + Len(old)), old, new)

Dl0 == <<"d","l","=","0">>
Dl1 == <<"d","l","=","1">>
Raw1 == <<"r","a","w","=","1">>
Http == <<"h","t","t","p">>

\* ['.jpg', '.jpeg', '.png', '.gif', '.webp']
LinkImageExtensions ==
    { <<".","j","p","g">>, <<".","j","p","e","g">>, <<".","p","n","g">>,
      <<".","g","i","f">>, <<".","w","e","b","p">> }

\* image_extensions: the same and '.tif', '.tiff'
CoverImageExtensions ==
    LinkImageExtensions \cup { <<".","t","i","f">>, <<".","t","i","f","f">> }

\* any(ext in url.lower() for ext in extensions)
HasExtension(url, extensions) == \E ext \in extensions : IsSubstring(ext, Lower(url))

\* is_audio = not any(ext in file_path.lower() for ext in [...])
IsAudio(file_path) == ~HasExtension(file_path, LinkImageExtensions)

\* force_fix_image_url, for an image URL: dl=0 or else dl=1 becomes raw=1
ReplaceDl(url) ==
    IF IsSubstring(Dl0, url) THEN ReplaceAll(url, Dl0, Raw1)
    ELSE IF IsSubstring(Dl1, url) THEN ReplaceAll(url, Dl1, Raw1)
    ELSE url

\* force_fix_image_url: raw=1 is appended if it is missing
WithRaw1(url) ==
    IF IsSubstring(Raw1, url) THEN url
    ELSE IF IsSubstring(<<"?">>, url) THEN url \o <<"&">> \o Raw1
    ELSE url \o <<"?">> \o Raw1

\* scripts/generate_track_links.force_fix_image_url
force_fix_image_url(url) ==
    IF url = <<>> \/ ~StartsWith(url, Http) THEN url
    ELSE IF ~HasExtension(url, CoverImageExtensions) THEN url
    ELSE WithRaw1(ReplaceDl(url))

\* s.split(sep), for a separator of one character
RECURSIVE SplitOn(_, _)
SplitOn(s, sep) ==
    IF ~IsSubstring(<<sep>>, s) THEN <<s>>
    ELSE <<TakeN(s, Find(s, <<sep>>))>> \o SplitOn(DropN(s, Find(s, <<sep>>) + 1), sep)

\* sep.join(parts)
RECURSIVE Join(_, _)
Join(parts, sep) ==
    IF parts = <<>> THEN <<>>
    ELSE IF Len(parts) = 1 THEN parts[1]
    ELSE parts[1] \o sep \o Join(Tail(parts), sep)

\* url.split('?')[0]
BeforeQuery(url) == SplitOn(url, "?")[1]

\* urlparse(url).query
QueryOf(url) ==
    IF IsSubstring(<<"?">>, url) THEN DropN(url, Find(url, <<"?">>) + 1) ELSE <<>>

\* the fields 'name=value' of a query whose value is not blank (parse_qs
\* drops the others), but for the names given
RECURSIVE KeptFields(_, _)
KeptFields(fields, dropped) ==
    IF fields = <<>> THEN <<>>
    ELSE IF /\ IsSubstring(<<"=">>, fields[1])
            /\ DropN(fields[1], Find(fields[1], <<"=">>) + 1) # <<>>
            /\ TakeN(fields[1], Find(fields[1], <<"=">>)) \notin dropped
         THEN <<fields[1]>> \o KeptFields(Tail(fields), dropped)
         ELSE KeptFields(Tail(fields), dropped)

\* the fields of parse_qs in the order of urlencode: by the first field of
\* each name
RECURSIVE GroupedByName(_)
GroupedByName(fields) ==
    IF fields = <<>> THEN <<>>
    ELSE SelectSeq(fields, LAMBDA f : TakeN(f, Find(f, <<"=">>)) = TakeN(fields[1], Find(fields[1], <<"=">>)))
         \o GroupedByName(SelectSeq(fields,
                LAMBDA f : TakeN(f, Find(f, <<"=">>)) # TakeN(fields[1], Find(fields[1], <<"=">>))))

\* convert_to_direct_link, an scl link: the parameters named are taken
\* out of the query and the one given is put at its end
WithParameter(shared_url, dropped, parameter) ==
    BeforeQuery(shared_url) \o <<"?">>
        \o Join(Append(GroupedByName(KeptFields(SplitOn(QueryOf(shared_url), "&"), dropped)),
                       parameter), <<"&">>)

SclFo == <<"s","c","l","/","f","o","/">>
SclFi == <<"s","c","l","/","f","i","/">>
WwwDropbox == <<"w","w","w",".","d","r","o","p","b","o","x",".","c","o","m">>
DlDropbox ==
    <<"d","l",".","d","r","o","p","b","o","x","u","s","e","r","c","o","n","t","e","n","t",
      ".","c","o","m">>

\* convert_to_direct_link, a regular link
RegularDirectLink(shared_url) == BeforeQuery(ReplaceAll(shared_url, WwwDropbox, DlDropbox))

\* generate_track_links.convert_to_direct_link
gtl_convert_to_direct_link(shared_url, is_audio) ==
    IF IsSubstring(SclFo, shared_url) \/ IsSubstring(SclFi, shared_url)
    THEN WithParameter(shared_url, {<<"d","l">>}, IF is_audio THEN Dl1 ELSE Dl0)
    ELSE RegularDirectLink(shared_url)

\* scripts/generate_track_links.convert_to_direct_link
sgtl_convert_to_direct_link(shared_url, is_audio) ==
    IF /\ HasExtension(shared_url, CoverImageExtensions)
       /\ IsSubstring(Dl0, shared_url) \/ IsSubstring(Dl1, shared_url)
    THEN ReplaceDl(shared_url)
    ELSE IF IsSubstring(SclFo, shared_url) \/ IsSubstring(SclFi, shared_url)
    THEN WithParameter(shared_url, {<<"d","l">>, <<"r","a","w">>},
                       IF is_audio THEN Dl1 ELSE Raw1)
    ELSE RegularDirectLink(shared_url)

-----------------------------------------------------------------------------
(* Links: one file asked of Dropbox.  The script makes up to four calls    *)
(* (get_metadata, list_shared_links, create_shared_link_with_settings and  *)
(* list_shared_links again); calls is what each of them answers, "-" for a *)
(* call that is not made, and shared_url the URL Dropbox gives when it     *)
(* gives one.  No link is the empty string.                                *)

\* requests.exceptions.Timeout and any other exception raised by a call
CallFaults == {"timeout", "raises"}

\* get_metadata: found, 409 path/not_found, another error status, a fault
MetadataAnswers == {"ok", "not_found", "error"} \cup CallFaults

\* list_shared_links: links, none, 409, another error status, a fault
ListAnswers == {"links", "empty", "conflict", "error"} \cup CallFaults

\* create_shared_link_with_settings: a url, none, 409, another error status,
\* a fault
CreateAnswers == {"url", "no_url", "conflict", "error"} \cup CallFaults

\* list_shared_links after the 409 of create
RelistAnswers == {"links", "empty", "error"} \cup CallFaults

ErrorEntry(message, path) == [message |-> message, path |-> path]

Linked(link) == [link |-> link, retry |-> FALSE, errors |-> <<>>]

NotLinked(message, path) ==
    [link |-> <<>>, retry |-> FALSE, errors |-> <<ErrorEntry(message, path)>>]

\* the except clauses of _attempt_link_for_path
sgtl_caught(fault, dropbox_path) ==
    IF fault = "timeout" THEN NotLinked("Timeout while contacting Dropbox for", dropbox_path)
    ELSE NotLinked("Exception getting link for", dropbox_path)

\* scripts/generate_track_links._attempt_link_for_path; direct_link is
\* convert_to_direct_link(shared_url, is_audio)
sgtl_attempt_link_for_path(dropbox_path, calls, direct_link) ==
    IF calls[1] \in CallFaults THEN sgtl_caught(calls[1], dropbox_path)
    ELSE IF calls[1] = "not_found" THEN [link |-> <<>>, retry |-> TRUE, errors |-> <<>>]
    ELSE IF calls[1] # "ok" THEN NotLinked("Failed to fetch metadata for", dropbox_path)
    ELSE IF calls[2] \in CallFaults THEN sgtl_caught(calls[2], dropbox_path)
    ELSE IF calls[2] = "links" THEN Linked(direct_link)
    ELSE IF calls[3] \in CallFaults THEN sgtl_caught(calls[3], dropbox_path)
    ELSE IF calls[3] = "url" THEN Linked(direct_link)
    ELSE IF calls[3] = "error" THEN NotLinked("Failed to create link for", dropbox_path)
    ELSE IF calls[3] = "conflict" /\ calls[4] \in CallFaults
    THEN sgtl_caught(calls[4], dropbox_path)
    ELSE IF calls[3] = "conflict" /\ calls[4] = "links" THEN Linked(direct_link)
    ELSE NotLinked("Failed to get link for", dropbox_path)

\* DROPBOX_LIBRARY_ROOT, of the environment's DROPBOX_LIBRARY_PATH
LibraryRootOf(raw) == WithoutTrailingSlashes(SlashesForward(Strip(raw)))

\* [segment for segment in path.split('/') if segment]
Segments(path) == SelectSeq(SplitOn(path, "/"), LAMBDA segment : segment # <<>>)

\* DROPBOX_APP_FOLDER
AppFolderOf(root) ==
    IF StartsWith(Lower(root), <<"/","a","p","p","s","/">>) /\ Len(Segments(root)) >= 2
    THEN <<"/">> \o Segments(root)[1] \o <<"/">> \o Segments(root)[2]
    ELSE <<>>

\* add_candidate
add_candidate(candidates, path) ==
    IF path = <<>> \/ path = <<"/">> THEN candidates
    ELSE IF \E i \in 1..Len(candidates) : candidates[i] = CollapseSlashes(LeadingSlash(path))
         THEN candidates
         ELSE Append(candidates, CollapseSlashes(LeadingSlash(path)))

\* get_dropbox_path_candidates: the path without the library root
RootTrimmed(candidates, normalized, root) ==
    IF root # <<>> /\ StartsWith(Lower(normalized), Lower(sgtl_normalize_path(root)))
    THEN add_candidate(candidates, DropN(normalized, Len(sgtl_normalize_path(root))))
    ELSE candidates

\* get_dropbox_path_candidates: the path without the app folder
FolderTrimmed(candidates, normalized, folder) ==
    IF folder # <<>> /\ StartsWith(Lower(normalized), Lower(folder))
    THEN add_candidate(candidates, DropN(normalized, Len(folder)))
    ELSE candidates

\* get_dropbox_path_candidates: the path without '/Apps/<folder>'
AppsTrimmed(candidates, parts) ==
    IF Len(parts) > 2 /\ Lower(parts[1]) = <<"a","p","p","s">>
    THEN add_candidate(candidates, <<"/">> \o Join(DropN(parts, 2), <<"/">>))
    ELSE candidates

\* get_dropbox_path_candidates, of the normalized path
CandidatesOf(normalized, root) ==
    AppsTrimmed(FolderTrimmed(RootTrimmed(add_candidate(<<>>, normalized), normalized, root),
                              normalized, AppFolderOf(root)),
                Segments(normalized))

\* scripts/generate_track_links.get_dropbox_path_candidates
get_dropbox_path_candidates(file_path, root) == CandidatesOf(sgtl_normalize_path(file_path), root)

\* the loop goes on to the next candidate after every attempt without a link
MovesOnUnlessLinked(attempt) == attempt.link = <<>>

\* if link: return link / if retry: continue / break
MovesOn(attempt) == attempt.link = <<>> /\ attempt.retry

\* get_permanent_link: 'for candidate in candidates', from candidate n,
\* with what Dropbox answers for each; asked are the paths sent to Dropbox
RECURSIVE TryCandidates(_, _, _, _)
TryCandidates(candidates, n, answers, direct_link) ==
    IF n > Len(candidates) THEN [link |-> <<>>, errors |-> <<>>, asked |-> <<>>]
    ELSE IF MovesOn(sgtl_attempt_link_for_path(candidates[n], answers[n], direct_link))
    THEN [TryCandidates(candidates, n + 1, answers, direct_link)
              EXCEPT !.asked = <<candidates[n]>> \o @]
    ELSE [link |-> sgtl_attempt_link_for_path(candidates[n], answers[n], direct_link).link,
          errors |-> sgtl_attempt_link_for_path(candidates[n], answers[n], direct_link).errors,
          asked |-> <<candidates[n]>>]

\* get_permanent_link without the entry it adds when no candidate gave a link
WithoutFinalError(tried, file_path) == tried

\* get_permanent_link: the entry added when no candidate gave a link
WithFinalError(tried, file_path) ==
    IF tried.link # <<>> THEN tried
    ELSE [tried EXCEPT !.errors = Append(@, ErrorEntry("Failed to generate link for", file_path))]

\* scripts/generate_track_links.get_permanent_link; candidates is
\* get_dropbox_path_candidates(file_path)
sgtl_get_permanent_link(file_path, candidates, answers, direct_link) ==
    IF candidates = <<>>
    THEN [link |-> <<>>, asked |-> <<>>,
          errors |-> <<ErrorEntry("No valid Dropbox path candidates for", file_path)>>]
    ELSE WithFinalError(TryCandidates(candidates, 1, answers, direct_link), file_path)

\* generate_track_links.get_permanent_link, after convert_to_dropbox_path
gtl_link_for_path(dropbox_path, file_path, calls, direct_link) ==
    IF calls[1] \in CallFaults THEN NotLinked("Exception getting link for", file_path)
    ELSE IF calls[1] = "not_found" THEN NotLinked("File not found at path:", dropbox_path)
    ELSE IF calls[2] \in CallFaults THEN NotLinked("Exception getting link for", file_path)
    ELSE IF calls[2] = "links" THEN Linked(direct_link)
    ELSE IF calls[3] \in CallFaults THEN NotLinked("Exception getting link for", file_path)
    ELSE IF calls[3] = "url" THEN Linked(direct_link)
    ELSE IF calls[3] = "conflict" /\ calls[4] \in CallFaults
    THEN NotLinked("Exception getting link for", file_path)
    ELSE IF calls[3] = "conflict" /\ calls[4] = "links" THEN Linked(direct_link)
    ELSE NotLinked("Failed to get link for", file_path)

\* generate_track_links.get_permanent_link; dropbox_path is
\* convert_to_dropbox_path(file_path)
gtl_get_permanent_link(file_path, dropbox_path, calls, direct_link) ==
    [link |-> gtl_link_for_path(dropbox_path, file_path, calls, direct_link).link,
     errors |-> gtl_link_for_path(dropbox_path, file_path, calls, direct_link).errors,
     asked |-> <<dropbox_path>>]

\* the paths a script can ask Dropbox for a file, in order
PathsToAsk(script, file_path, root) ==
    IF script = "gtl" THEN <<gtl_convert_to_dropbox_path(file_path)>>
    ELSE get_dropbox_path_candidates(file_path, root)

\* convert_to_direct_link of each script
ConvertToDirectLink(script, shared_url, is_audio) ==
    IF script = "gtl" THEN gtl_convert_to_direct_link(shared_url, is_audio)
    ELSE sgtl_convert_to_direct_link(shared_url, is_audio)

\* get_permanent_link of each script, for the paths it can ask, what Dropbox
\* answers for each path asked and the direct link of the URL Dropbox has
GetPermanentLink(script, file_path, paths, answers, direct_link) ==
    IF script = "gtl" THEN gtl_get_permanent_link(file_path, paths[1], answers[1], direct_link)
    ELSE sgtl_get_permanent_link(file_path, paths, answers, direct_link)

----------------------------------------------------------------------------
(* One call of a path normalizer.                                          *)

\* a raw path is made of at most this many pieces
MaxPathPieces == 3

\* pieces of raw paths: drives, the root marker in two cases, the library
\* prefix, a file below Apps, a word that holds 'zappalibrary', a slash, a blank
PathPieces ==
    { <<"C", ":", "\\">>, <<"c", ":", "/">>, <<"D", ":", "\\">>,
      <<"D","r","o","p","b","o","x","\\">>, <<"d","r","o","p","b","o","x","/">>,
      LibraryPrefix, <<"A","p","p","s","/","a",".","m","p","3">>,
      <<"Z","a","p","p","a","L","i","b","r","a","r","y","/","b">>,
      <<"/">>, <<" ">> }

RawPaths == UNION { {Concat(ps) : ps \in [1..k -> PathPieces]} : k \in 0..MaxPathPieces }

PathScripts == {"sgtl", "uld", "ccl", "etd", "gtl"}

IdlePath ==
    /\ pScript = "none"
    /\ pPath = <<>>
    /\ pOut = <<>>
    /\ pPc = "idle"

InitPath ==
    /\ pScript \in PathScripts
    /\ pPath \in RawPaths
    /\ pOut = <<>>
    /\ pPc = "call"

\* normalized = _normalize_path(path)
NormalizePathCall ==
    /\ pPc = "call"
    /\ pOut' = NormalizePath(pScript, pPath)
    /\ pPc' = "returned"
    /\ UNCHANGED <<pScript, pPath, lookupVars, mergeVars, linkVars, scanVars, tryVars, inputVars, titleVars>>

-----------------------------------------------------------------------------
(* One lookup of a track's duration in an index read from the rows of the  *)
(* track table.                                                            *)

MaxRows == 2

SongPath ==
    <<"/","A","p","p","s","/","L","i","b","/","A","l","b","u","m","/",
      "0","1"," ","S","o","n","g",".","m","p","3">>
SongPathUpper ==
    <<"/","A","p","p","s","/","L","i","b","/","A","l","b","u","m","/",
      "0","1"," ","S","O","N","G",".","m","p","3">>
OtherSongPath == <<"/","O","t","h","e","r","/","0","1"," ","s","o","n","g",".","m","p","3">>
BareSongPath == <<"/","x","/","S","o","n","g",".","m","p","3">>
NonePath == <<"/","n","o","n","e",".","m","p","3">>

\* rows <<file_path, duration_seconds>>: 245.0 s under drive C, 180.5 s
\* under the same key written otherwise, 5.0 s under drive D, 0.0005 s
SongRow == <<<<"C",":","/","U","s","e","r","s","/","x","/","D","r","o","p","b","o","x">> \o SongPath,
             490000>>
SongRowAgain == <<<<"c",":","\\","y","\\","d","r","o","p","b","o","x">> \o SongPath, 361000>>
DriveDRow == <<<<"D",":","\\","D","r","o","p","b","o","x","\\","a","\\",
                 "S","o","n","g",".","m","p","3">>, 10000>>
ShortRow == <<<<"C",":","\\","D","r","o","p","b","o","x">> \o NonePath, 1>>

RowPool == {SongRow, SongRowAgain, DriveDRow, ShortRow}
RowSeqs == UNION { [1..k -> RowPool] : k \in 0..MaxRows }

\* durationMs of a track that was merged before
OldDurationMs == 5 * 1000

LookupPaths == {SongPath, SongPathUpper, OtherSongPath, BareSongPath, NonePath, <<>>}
LookupTracks == [filePath : LookupPaths, durationMs : {0, OldDurationMs}]

MergeScripts == {"uld", "ccl"}

IdleLookup ==
    /\ dScript = "none"
    /\ dRows = <<>>
    /\ dTrack = [filePath |-> <<>>, durationMs |-> 0]
    /\ dIndex = <<>>
    /\ dOut = 0
    /\ dPc = "idle"

InitLookup ==
    /\ dScript \in MergeScripts
    /\ dRows \in RowSeqs
    /\ dTrack \in LookupTracks
    /\ dIndex = <<>>
    /\ dOut = 0
    /\ dPc = "load"

\* durations = json.load(f) / durations = load_durations_from_db(db_path)
LoadIndex ==
    /\ dPc = "load"
    /\ dIndex' = LoadDurations(dScript, dRows)
    /\ dPc' = "find"
    /\ UNCHANGED <<dScript, dRows, dTrack, dOut, pathVars, mergeVars, linkVars, scanVars, tryVars, inputVars, titleVars>>

\* duration_ms = find_duration(file_path, durations) /
\* new_duration = get_duration_for_track(track, durations)
FindTrackDuration ==
    /\ dPc = "find"
    /\ dOut' = FindDuration(dScript, dTrack, dIndex)
    /\ dPc' = "found"
    /\ UNCHANGED <<dScript, dRows, dTrack, dIndex, pathVars, mergeVars, linkVars, scanVars, tryVars, inputVars, titleVars>>

-----------------------------------------------------------------------------
(* One merge run of a script, and a second run on what the first wrote.    *)

MaxTracks == 2

\* the rows of the track table of a merge run
MergeRowSeqs == UNION { [1..k -> {SongRow, SongRowAgain, DriveDRow}] : k \in 0..MaxRows }

MergePaths == {SongPath, BareSongPath}
TrackPool == [filePath : MergePaths, durationMs : {0, OldDurationMs}]
TrackSeqs == UNION { [1..k -> TrackPool] : k \in 0..MaxTracks }

\* what the library generator stores: the durations it knows, summed
PositiveSum(tracks) ==
    SumSeq([i \in 1..Len(tracks) |->
               IF tracks[i].durationMs > 0 THEN tracks[i].durationMs ELSE 0])

Album(tracks) == [tracks |-> tracks, totalDurationMs |-> PositiveSum(tracks)]

LeastOf(numbers) == CHOOSE c \in numbers : \A e \in numbers : c <= e

\* the tracks cut into albums after the positions in cuts, all of them
\* before the last track
RECURSIVE AlbumsOf(_, _, _)
AlbumsOf(tracks, cuts, from) ==
    IF from > Len(tracks) THEN <<>>
    ELSE IF \E c \in cuts : c >= from
         THEN <<Album(SubSeq(tracks, from, LeastOf({c \in cuts : c >= from})))>>
                  \o AlbumsOf(tracks, cuts, LeastOf({c \in cuts : c >= from}) + 1)
         ELSE <<Album(SubSeq(tracks, from, Len(tracks)))>>

AlbumTotals(albums) == SumSeq([i \in 1..Len(albums) |-> albums[i].totalDurationMs])

Library(albums) ==
    [albums |-> albums, totalDurationMs |-> AlbumTotals(albums), hasDurations |-> FALSE]

Libraries ==
    UNION { { Library(AlbumsOf(tracks, cuts, 1)) : cuts \in SUBSET (1..(Len(tracks) - 1)) } :
                tracks \in TrackSeqs }

NoLibrary == [albums |-> <<>>, totalDurationMs |-> 0, hasDurations |-> FALSE]

IdleMerge ==
    /\ uScript = "none"
    /\ uRows = <<>>
    /\ uIndex = <<>>
    /\ uBefore = NoLibrary
    /\ uLibrary = NoLibrary
    /\ uFile = NoLibrary
    /\ uFirst = NoLibrary
    /\ uAlbum = 0
    /\ uTotal = 0
    /\ uUpdated = 0
    /\ uWrites = 0
    /\ uRun = 0
    /\ uPc = "idle"

\* the library file and the track table before the first run; the file a
\* run writes is the library file itself (uld) or does not exist yet (ccl)
InitMerge ==
    /\ uScript \in MergeScripts
    /\ uRows \in MergeRowSeqs
    /\ uIndex = <<>>
    /\ uBefore \in Libraries
    /\ uLibrary = NoLibrary
    /\ uFile = IF uScript = "uld" THEN uBefore ELSE NoLibrary
    /\ uFirst = NoLibrary
    /\ uAlbum = 0
    /\ uTotal = 0
    /\ uUpdated = 0
    /\ uWrites = 0
    /\ uRun = 1
    /\ uPc = "load"

\* durations and library are read
LoadFiles ==
    /\ uPc = "load"
    /\ uIndex' = LoadDurations(uScript, uRows)
    /\ uLibrary' = uBefore
    /\ uAlbum' = 1
    /\ uTotal' = 0
    /\ uUpdated' = 0
    /\ uPc' = "merge"
    /\ UNCHANGED <<uScript, uRows, uBefore, uFile, uFirst, uWrites, uRun,
                   pathVars, lookupVars, linkVars, scanVars, tryVars, inputVars, titleVars>>

\* one pass of 'for album in library['albums']'
MergeNextAlbum ==
    /\ uPc = "merge"
    /\ uAlbum <= Len(uLibrary.albums)
    /\ uLibrary' = [uLibrary EXCEPT !.albums[uAlbum] =
                       MergeAlbum(uScript, uLibrary.albums[uAlbum], uIndex)]
    /\ uTotal' = IF uScript = "uld"
                 THEN uTotal + uld_album_duration(uLibrary.albums[uAlbum].tracks, uIndex)
                 ELSE uTotal
    /\ uUpdated' = IF uScript = "ccl"
                   THEN uUpdated + ccl_updated_in(uLibrary.albums[uAlbum].tracks, uIndex)
                   ELSE uUpdated
    /\ uAlbum' = uAlbum + 1
    /\ UNCHANGED <<uScript, uRows, uIndex, uBefore, uFile, uFirst, uWrites, uRun, uPc,
                   pathVars, lookupVars, linkVars, scanVars, tryVars, inputVars, titleVars>>

\* the totals are set and json.dump writes the library
WriteLibrary ==
    /\ uPc = "merge"
    /\ uAlbum > Len(uLibrary.albums)
    /\ uLibrary' = FinishedLibrary(uScript, uLibrary, uTotal, uUpdated)
    /\ uFile' = uLibrary'
    /\ uWrites' = uWrites + 1
    /\ uPc' = "done"
    /\ UNCHANGED <<uScript, uRows, uIndex, uBefore, uFirst, uAlbum, uTotal, uUpdated, uRun,
                   pathVars, lookupVars, linkVars, scanVars, tryVars, inputVars, titleVars>>

\* the script is run again on the file the first run wrote, with the same
\* track table
RunAgain ==
    /\ uPc = "done"
    /\ uRun = 1
    /\ uFirst' = uFile
    /\ uBefore' = uFile
    /\ uRun' = 2
    /\ uPc' = "load"
    /\ UNCHANGED <<uScript, uRows, uIndex, uLibrary, uFile, uAlbum, uTotal, uUpdated, uWrites,
                   pathVars, lookupVars, linkVars, scanVars, tryVars, inputVars, titleVars>>

-----------------------------------------------------------------------------
(* Links: a run of generate_track_links over a library, DROPBOX_LIBRARY_PATH *)
(* unset.  kFile is the file the run overwrites (output_path is            *)
(* library_path by default).                                               *)

LinkScripts == {"gtl", "sgtl"}

\* DROPBOX_LIBRARY_PATH is not set
NoLibraryRoot == <<>>

\* the most albums and tracks, taken together, of a library
MaxItems == 2

\* '/Apps/Vault/A/1.mp3'
TrackPath == <<"/","A","p","p","s","/","V","a","u","l","t","/","A","/","1",".","m","p","3">>
\* 'https://dl.dropboxusercontent.com/s/o/2.mp3'
EarlierLink ==
    <<"h","t","t","p","s",":","/","/">> \o DlDropbox \o <<"/","s","/","o","/","2",".","m","p","3">>
\* '/Apps/Vault/A/c.jpg'
CoverPath == <<"/","A","p","p","s","/","V","a","u","l","t","/","A","/","c",".","j","p","g">>
\* 'covers/c.jpg'
RelativeCoverPath == <<"c","o","v","e","r","s","/","c",".","j","p","g">>
\* 'https://www.dropbox.com/s/k/c.jpg?dl=0'
SharedCoverUrl ==
    <<"h","t","t","p","s",":","/","/">> \o WwwDropbox
        \o <<"/","s","/","k","/","c",".","j","p","g","?">> \o Dl0
\* 'https://www.dropbox.com/s/k/c.jpg'
PlainCoverUrl ==
    <<"h","t","t","p","s",":","/","/">> \o WwwDropbox
        \o <<"/","s","/","k","/","c",".","j","p","g">>
\* 'https://www.dropbox.com/scl/fi/k/c.jpg?rlkey=r&dl=0'
SclCoverUrl ==
    <<"h","t","t","p","s",":","/","/">> \o WwwDropbox
        \o <<"/","s","c","l","/","f","i","/","k","/","c",".","j","p","g","?",
             "r","l","k","e","y","=","r","&">> \o Dl0
\* 'https://www.dropbox.com/scl/fi/k/1.mp3?rlkey=r&dl=0'
SclTrackUrl ==
    <<"h","t","t","p","s",":","/","/">> \o WwwDropbox
        \o <<"/","s","c","l","/","f","i","/","k","/","1",".","m","p","3","?",
             "r","l","k","e","y","=","r","&">> \o Dl0

\* a track without a link, a track linked by an earlier run, a track
\* without a file path
LinkTrackPool ==
    { [filePath |-> TrackPath, streamingUrl |-> <<>>, downloadUrl |-> <<>>],
      [filePath |-> TrackPath, streamingUrl |-> EarlierLink, downloadUrl |-> EarlierLink],
      [filePath |-> <<>>, streamingUrl |-> <<>>, downloadUrl |-> <<>>] }

\* a cover path, a cover URL an earlier run stored, a path that is not a
\* Dropbox path
CoverPool == {CoverPath, SharedCoverUrl, RelativeCoverPath}

\* the albums of at most n tracks
LinkAlbums(n) ==
    UNION { [coverUrl : CoverPool, tracks : [1..k -> LinkTrackPool]] : k \in 0..n }

LinkLibrary(albums) ==
    [albums |-> albums, hasLinks |-> FALSE, hasCoverLinks |-> FALSE, generatedAt |-> "earlier"]

\* the sequences of albums of at most n albums and tracks, taken together
RECURSIVE AlbumSeqs(_)
AlbumSeqs(n) ==
    IF n <= 0 THEN { <<>> }
    ELSE { <<>> } \cup UNION { { <<album>> \o rest : rest \in AlbumSeqs(n - 1 - Len(album.tracks)) } :
                               album \in LinkAlbums(n - 1) }

LinkLibraries == { LinkLibrary(albums) : albums \in AlbumSeqs(MaxItems) }

NoLinkLibrary ==
    [albums |-> <<>>, hasLinks |-> FALSE, hasCoverLinks |-> FALSE, generatedAt |-> "earlier"]

\* the URL Dropbox has for a file
SharedUrls(file_path) ==
    IF IsAudio(file_path) THEN {SclTrackUrl} ELSE {SharedCoverUrl, SclCoverUrl, PlainCoverUrl}

\* what the four calls can answer for one path, for each script; gtl goes
\* on to list_shared_links after an error status of get_metadata
AnswersOf(script) ==
    { calls \in MetadataAnswers \X (ListAnswers \cup {"-"}) \X (CreateAnswers \cup {"-"})
                    \X (RelistAnswers \cup {"-"}) :
        /\ (calls[2] # "-") <=> (calls[1] = "ok" \/ (script = "gtl" /\ calls[1] = "error"))
        /\ (calls[3] # "-") <=> (calls[2] \in {"empty", "conflict", "error"})
        /\ (calls[4] # "-") <=> (calls[3] = "conflict") }

gtl_answers == AnswersOf("gtl")
sgtl_answers == AnswersOf("sgtl")

NotFound == <<"not_found", "-", "-", "-">>

\* what Dropbox can answer for the paths the script asks in turn: sgtl asks
\* for the next of its n candidates after a not_found
AnswerSeqs(script, n) ==
    IF script = "gtl" THEN { <<calls>> : calls \in gtl_answers }
    ELSE IF n = 0 THEN { <<>> }
    ELSE UNION { { [i \in 1..k |-> IF i < k THEN NotFound ELSE calls] :
                      calls \in IF k < n THEN sgtl_answers \ {NotFound} ELSE sgtl_answers } :
                 k \in 1..n }

\* the outcomes get_permanent_link can have for a file
LinkOutcomes(script, file_path) ==
    UNION { { GetPermanentLink(script, file_path, paths, answers, direct_link) :
                answers \in AnswerSeqs(script, Len(paths)),
                direct_link \in { ConvertToDirectLink(script, shared_url, IsAudio(file_path)) :
                                    shared_url \in SharedUrls(file_path) } } :
            paths \in { PathsToAsk(script, file_path, NoLibraryRoot) } }

\* all_tracks: the positions <<album, track>> in library order
RECURSIVE AllTracksFrom(_, _)
AllTracksFrom(albums, a) ==
    IF a > Len(albums) THEN <<>>
    ELSE [t \in 1..Len(albums[a].tracks) |-> <<a, t>>] \o AllTracksFrom(albums, a + 1)

AllTracks(library) == AllTracksFrom(library.albums, 1)

\* the items in the order the run visits them: the tracks, then the covers
AllItems(library) ==
    [i \in 1..Len(AllTracks(library)) |->
        [kind |-> "track", album |-> AllTracks(library)[i][1], track |-> AllTracks(library)[i][2]]]
    \o [a \in 1..Len(library.albums) |-> [kind |-> "cover", album |-> a, track |-> 0]]

\* a pass of the loop that does not call get_permanent_link
NotAsked == [link |-> <<>>, errors |-> <<>>, asked |-> <<>>]

\* no track is taken to have a link
NeverLinked(track) == FALSE
\* if track.get('streamingUrl')
AlreadyLinked(track) == track.streamingUrl # <<>>

\* one pass of 'for album, track in batch': a track that has a link or has
\* no file path is passed over
TrackOutcomes(script, track) ==
    IF AlreadyLinked(track) \/ track.filePath = <<>> THEN {NotAsked}
    ELSE LinkOutcomes(script, track.filePath)

\* track['streamingUrl'] = link; track['downloadUrl'] = link
WithTrackLink(track, link) ==
    IF link = <<>> THEN track
    ELSE [track EXCEPT !.streamingUrl = link, !.downloadUrl = link]

\* the pass adds to tracks_with_links
CountsAsLinked(track, link) == track.streamingUrl # <<>> \/ link # <<>>

\* one pass of 'for album in library.get('albums', [])': an HTTP URL is not
\* asked for (sgtl rewrites it), nor is a missing or relative path
CoverOutcomes(script, cover_url) ==
    IF cover_url = <<>> \/ ~StartsWith(cover_url, <<"/">>) THEN {NotAsked}
    ELSE LinkOutcomes(script, cover_url)

\* the coverUrl after the pass
WithCoverLink(script, cover_url, link) ==
    IF StartsWith(cover_url, Http)
    THEN IF script = "sgtl" THEN force_fix_image_url(cover_url) ELSE cover_url
    ELSE IF link # <<>> THEN link
    ELSE cover_url

\* the pass adds to covers_with_links
CountsAsCovered(cover_url, link) == StartsWith(cover_url, Http) \/ link # <<>>

\* what the run remembers of a pass: the item, the path it has, whether
\* get_permanent_link was called and gave a link, and the error entries the
\* pass added: those after position 'from' up to position 'to'
Visit(item, path, outcome, errors) ==
    [item |-> item, path |-> path, asked |-> outcome # NotAsked,
     linked |-> outcome.link # <<>>,
     from |-> Len(errors), to |-> Len(errors) + Len(outcome.errors)]

\* is_image and ('dl=0' in cover_url or 'dl=1' in cover_url)
InvalidCover(cover_url) ==
    /\ StartsWith(cover_url, Http)
    /\ HasExtension(cover_url, CoverImageExtensions)
    /\ IsSubstring(Dl0, cover_url) \/ IsSubstring(Dl1, cover_url)

\* validate_and_fix_all_covers: the covers after the pass
ValidatedAlbums(albums) ==
    [a \in 1..Len(albums) |->
        IF InvalidCover(albums[a].coverUrl)
        THEN [albums[a] EXCEPT !.coverUrl = force_fix_image_url(@)]
        ELSE albums[a]]

\* validate_and_fix_all_covers: fixed_count
FixedCount(albums) ==
    Cardinality({ a \in 1..Len(albums) :
        InvalidCover(albums[a].coverUrl)
            /\ force_fix_image_url(albums[a].coverUrl) # albums[a].coverUrl })

\* validate_and_fix_all_covers: len(invalid_urls)
InvalidCount(albums) ==
    Cardinality({ a \in 1..Len(albums) :
        InvalidCover(albums[a].coverUrl)
            /\ force_fix_image_url(albums[a].coverUrl) = albums[a].coverUrl })

\* the two validation passes: the second runs if the first fixed a cover or
\* found one it could not fix
TwiceValidated(albums) ==
    IF FixedCount(albums) > 0 \/ InvalidCount(albums) > 0
    THEN ValidatedAlbums(ValidatedAlbums(albums))
    ELSE ValidatedAlbums(albums)

\* still_invalid after the second pass
StillInvalid(albums) ==
    /\ FixedCount(albums) > 0 \/ InvalidCount(albums) > 0
    /\ \E a \in 1..Len(albums) : InvalidCover(TwiceValidated(albums)[a].coverUrl)

\* covers_dl0 > 0 or covers_dl1 > 0: an image URL without raw=1 that has
\* dl=0 or dl=1
CoversDl(albums) ==
    \E a \in 1..Len(albums) :
        /\ InvalidCover(albums[a].coverUrl)
        /\ ~IsSubstring(Raw1, albums[a].coverUrl)

\* generate_track_links returns False before it writes (sgtl)
RefusesToWrite(script, albums) ==
    /\ script = "sgtl"
    /\ StillInvalid(albums) \/ CoversDl(TwiceValidated(albums))

\* the library when the loops are over
LinkedLibrary(script, library, tracks_with_links, covers_with_links) ==
    IF script = "gtl"
    THEN [library EXCEPT !.generatedAt = "now", !.hasLinks = tracks_with_links > 0,
                         !.hasCoverLinks = covers_with_links > 0]
    ELSE IF StillInvalid(library.albums)
    THEN [library EXCEPT !.albums = TwiceValidated(@)]
    ELSE [library EXCEPT !.albums = TwiceValidated(@), !.generatedAt = "now",
                         !.hasLinks = tracks_with_links > 0,
                         !.hasCoverLinks = covers_with_links > 0]

IdleLinks ==
    /\ kScript = "none"
    /\ kBefore = NoLinkLibrary
    /\ kLibrary = NoLinkLibrary
    /\ kFile = NoLinkLibrary
    /\ kErrors = <<>>
    /\ kAsked = <<>>
    /\ kVisited = <<>>
    /\ kItem = 0
    /\ kTracksWithLinks = 0
    /\ kCoversWithLinks = 0
    /\ kWrites = 0
    /\ kRun = 0
    /\ kFirst = <<>>
    /\ kPc = "idle"

\* the library is loaded and the token is there
InitLinks ==
    /\ kScript \in LinkScripts
    /\ kBefore \in LinkLibraries
    /\ kLibrary = kBefore
    /\ kFile = kBefore
    /\ kErrors = <<>>
    /\ kAsked = <<>>
    /\ kVisited = <<>>
    /\ kItem = 1
    /\ kTracksWithLinks = 0
    /\ kCoversWithLinks = 0
    /\ kWrites = 0
    /\ kRun = 1
    /\ kFirst = <<>>
    /\ kPc = "tracks"

\* one pass of 'for album, track in batch'
LinkNextTrack ==
    /\ kPc = "tracks"
    /\ kItem <= Len(AllTracks(kLibrary))
    /\ \E at \in {AllTracks(kLibrary)[kItem]} :
       \E outcome \in TrackOutcomes(kScript, kLibrary.albums[at[1]].tracks[at[2]]) :
          /\ kLibrary' = [kLibrary EXCEPT !.albums[at[1]].tracks[at[2]] =
                                              WithTrackLink(@, outcome.link)]
          /\ kTracksWithLinks' =
                IF CountsAsLinked(kLibrary.albums[at[1]].tracks[at[2]], outcome.link)
                THEN kTracksWithLinks + 1 ELSE kTracksWithLinks
          /\ kErrors' = kErrors \o outcome.errors
          /\ kAsked' = kAsked \o outcome.asked
          /\ kVisited' = Append(kVisited,
                Visit([kind |-> "track", album |-> at[1], track |-> at[2]],
                      kLibrary.albums[at[1]].tracks[at[2]].filePath, outcome, kErrors))
    /\ kItem' = kItem + 1
    /\ UNCHANGED <<kScript, kBefore, kFile, kCoversWithLinks, kWrites, kRun, kFirst, kPc>>
    /\ UNCHANGED <<pathVars, lookupVars, mergeVars, scanVars, tryVars, inputVars, titleVars>>

\* the track loop is over: covers_processed = 0, covers_with_links = 0
StartCovers ==
    /\ kPc = "tracks"
    /\ kItem > Len(AllTracks(kLibrary))
    /\ kItem' = 1
    /\ kCoversWithLinks' = 0
    /\ kPc' = "covers"
    /\ UNCHANGED <<kScript, kBefore, kLibrary, kFile, kErrors, kAsked, kVisited,
                   kTracksWithLinks, kWrites, kRun, kFirst>>
    /\ UNCHANGED <<pathVars, lookupVars, mergeVars, scanVars, tryVars, inputVars, titleVars>>

\* one pass of 'for album in library.get('albums', [])'
LinkNextCover ==
    /\ kPc = "covers"
    /\ kItem <= Len(kLibrary.albums)
    /\ \E cover_url \in {kLibrary.albums[kItem].coverUrl} :
       \E outcome \in CoverOutcomes(kScript, cover_url) :
          /\ kLibrary' = [kLibrary EXCEPT !.albums[kItem].coverUrl =
                                              WithCoverLink(kScript, cover_url, outcome.link)]
          /\ kCoversWithLinks' =
                IF CountsAsCovered(cover_url, outcome.link)
                THEN kCoversWithLinks + 1 ELSE kCoversWithLinks
          /\ kErrors' = kErrors \o outcome.errors
          /\ kAsked' = kAsked \o outcome.asked
          /\ kVisited' = Append(kVisited,
                Visit([kind |-> "cover", album |-> kItem, track |-> 0],
                      cover_url, outcome, kErrors))
    /\ kItem' = kItem + 1
    /\ UNCHANGED <<kScript, kBefore, kFile, kTracksWithLinks, kWrites, kRun, kFirst, kPc>>
    /\ UNCHANGED <<pathVars, lookupVars, mergeVars, scanVars, tryVars, inputVars, titleVars>>

\* the cover loop is over: the covers are validated (sgtl), the metadata
\* set and the library written, unless the run returns False first
FinishLinks ==
    /\ kPc = "covers"
    /\ kItem > Len(kLibrary.albums)
    /\ kLibrary' = LinkedLibrary(kScript, kLibrary, kTracksWithLinks, kCoversWithLinks)
    /\ IF RefusesToWrite(kScript, kLibrary.albums)
       THEN /\ kPc' = "failed"
            /\ UNCHANGED <<kFile, kWrites>>
       ELSE /\ kFile' = kLibrary'
            /\ kWrites' = kWrites + 1
            /\ kPc' = "done"
    /\ UNCHANGED <<kScript, kBefore, kErrors, kAsked, kVisited, kItem, kTracksWithLinks,
                   kCoversWithLinks, kRun, kFirst>>
    /\ UNCHANGED <<pathVars, lookupVars, mergeVars, scanVars, tryVars, inputVars, titleVars>>

\* the script is run again on the file it wrote
LinkAgain ==
    /\ kPc = "done"
    /\ kRun = 1
    /\ kRun' = 2
    /\ kFirst' = kVisited
    /\ kBefore' = kFile
    /\ kLibrary' = kFile
    /\ kErrors' = <<>>
    /\ kAsked' = <<>>
    /\ kVisited' = <<>>
    /\ kItem' = 1
    /\ kTracksWithLinks' = 0
    /\ kCoversWithLinks' = 0
    /\ kWrites' = 0
    /\ kPc' = "tracks"
    /\ UNCHANGED <<kScript, kFile>>
    /\ UNCHANGED <<pathVars, lookupVars, mergeVars, scanVars, tryVars, inputVars, titleVars>>

-----------------------------------------------------------------------------
(* The track database: a run of create_track_database.scan_library over    *)
(* the album directories of the library, after init_database.  sDb is the  *)
(* committed content of zappa_tracks.db: the names of Albums and, of       *)
(* Tracks, the album, file_path, file_name and duration_seconds (in half   *)
(* milliseconds, 0 for NULL).                                              *)

MaxDirFiles == 2

Digits == <<"1","2","3","4","5","6","7","8","9">>

\* the audio files a directory can hold, as sorted() orders them: some
\* directly in it and some under its 'Cover' directory
FileNames ==
    [i \in 1..(MaxDirFiles - MaxDirFiles \div 2) |-> <<Digits[i], ".","m","p","3">>]
    \o [i \in 1..(MaxDirFiles \div 2) |-> <<"C","o","v","e","r","/", Digits[i], ".","m","p","3">>]

\* the length mutagen reads, 0 for a file it cannot read
FileLengths == {0, 490000}

\* the first n file names, those at the positions in kept
RECURSIVE KeptNames(_, _)
KeptNames(n, kept) ==
    IF n = 0 THEN <<>>
    ELSE IF n \in kept THEN Append(KeptNames(n - 1, kept), FileNames[n])
    ELSE KeptNames(n - 1, kept)

\* 'A', 'B', 'Covers'
DirNames == << <<"A">>, <<"B">>, <<"C","o","v","e","r","s">> >>

\* an album directory with some of the files, all of one length
Dir(name, kept, length) ==
    [name |-> name,
     files |-> [i \in 1..Len(KeptNames(MaxDirFiles, kept)) |->
                   [path |-> name \o <<"/">> \o KeptNames(MaxDirFiles, kept)[i],
                    length |-> length]]]

DirsNamed(name) ==
    { Dir(name, kept, length) : kept \in SUBSET (1..MaxDirFiles), length \in FileLengths }

\* sorted(album_dirs): some of the directories, in the order of their names
RECURSIVE ListingsFrom(_)
ListingsFrom(n) ==
    IF n > Len(DirNames) THEN { <<>> }
    ELSE ListingsFrom(n + 1)
         \cup { <<dir>> \o rest : dir \in DirsNamed(DirNames[n]), rest \in ListingsFrom(n + 1) }

Listings == ListingsFrom(1)

EmptyDb == [albums |-> <<>>, tracks |-> <<>>]

TrackRow(album_name, file) ==
    [album |-> album_name, file_path |-> file.path, file_name |-> LastSegment(file.path),
     duration_seconds |-> IF file.length > 0 THEN file.length ELSE 0]

\* what an earlier run left: album 'A' and its first track
EarlierDb ==
    [albums |-> << DirNames[1] >>,
     tracks |-> << TrackRow(DirNames[1],
                            [path |-> DirNames[1] \o <<"/">> \o FileNames[1], length |-> 490000]) >>]

\* album_name.lower() in ['cover', 'covers']
IsCoverDir(album_name) ==
    Lower(album_name) \in { <<"c","o","v","e","r">>, <<"c","o","v","e","r","s">> }

\* [f for f in audio_files if 'cover' not in str(f).lower()]
AudioFilesOf(dir) ==
    SelectSeq(dir.files, LAMBDA f : ~IsSubstring(<<"c","o","v","e","r">>, Lower(f.path)))

\* 'SELECT id FROM Albums WHERE name = ?' and the INSERT if there is none
WithAlbum(db, album_name) ==
    IF \E i \in 1..Len(db.albums) : db.albums[i] = album_name THEN db
    ELSE [db EXCEPT !.albums = Append(@, album_name)]

\* 'for audio_file in sorted(audio_files)': a file whose path is in Tracks
\* is passed over
RECURSIVE WithTracks(_, _, _)
WithTracks(tracks, album_name, files) ==
    IF files = <<>> THEN tracks
    ELSE IF \E i \in 1..Len(tracks) : tracks[i].file_path = files[1].path
    THEN WithTracks(tracks, album_name, Tail(files))
    ELSE WithTracks(Append(tracks, TrackRow(album_name, files[1])), album_name, Tail(files))

\* one pass of 'for album_dir in sorted(album_dirs)': what is committed
\* when the pass is over
ScannedAlbum(db, dir) ==
    IF IsCoverDir(dir.name) THEN db
    ELSE [WithAlbum(db, dir.name) EXCEPT !.tracks = WithTracks(@, dir.name, AudioFilesOf(dir))]

\* album_tracks of the pass
AlbumTracks(db, dir) == Len(ScannedAlbum(db, dir).tracks) - Len(db.tracks)

\* the db_conn.commit() calls of the pass: after the INSERT of a new album
\* and after the files of an album that has some
CommitsOf(db, dir) ==
    IF IsCoverDir(dir.name) THEN 0
    ELSE (IF WithAlbum(db, dir.name) # db THEN 1 ELSE 0)
         + (IF AudioFilesOf(dir) # <<>> THEN 1 ELSE 0)

IdleScan ==
    /\ sDirs = <<>>
    /\ sBefore = EmptyDb
    /\ sDb = EmptyDb
    /\ sAlbum = 0
    /\ sTotalTracks = 0
    /\ sCommits = 0
    /\ sReport = <<>>
    /\ sPc = "idle"

InitScan ==
    /\ sDirs \in Listings
    /\ sBefore \in {EmptyDb, EarlierDb}
    /\ sDb = sBefore
    /\ sAlbum = 1
    /\ sTotalTracks = 0
    /\ sCommits = 0
    /\ sReport = <<>>
    /\ sPc = "scan"

\* one pass of 'for album_dir in sorted(album_dirs)'
ScanNextAlbum ==
    /\ sPc = "scan"
    /\ sAlbum <= Len(sDirs)
    /\ sDb' = ScannedAlbum(sDb, sDirs[sAlbum])
    /\ sTotalTracks' = sTotalTracks + AlbumTracks(sDb, sDirs[sAlbum])
    /\ sCommits' = sCommits + CommitsOf(sDb, sDirs[sAlbum])
    /\ sAlbum' = sAlbum + 1
    /\ UNCHANGED <<sDirs, sBefore, sReport, sPc>>
    /\ UNCHANGED <<pathVars, lookupVars, mergeVars, linkVars, tryVars, inputVars, titleVars>>

\* generate_report, after the scan: the report lists the albums by name
\* and their tracks
WriteReport ==
    /\ sPc = "scan"
    /\ sAlbum > Len(sDirs)
    /\ sReport' = <<sDb>>
    /\ sPc' = "done"
    /\ UNCHANGED <<sDirs, sBefore, sDb, sAlbum, sTotalTracks, sCommits>>
    /\ UNCHANGED <<pathVars, lookupVars, mergeVars, linkVars, tryVars, inputVars, titleVars>>

-----------------------------------------------------------------------------
(* One call of get_permanent_link of scripts/generate_track_links.py, with *)
(* what Dropbox would answer for every candidate path of the file.         *)

\* '/1.mp3'
RootTrackPath == <<"/","1",".","m","p","3">>

\* files with two candidate paths, with one and with none
CandidateFiles == {TrackPath, CoverPath, RootTrackPath, <<>>}

NoLink == [link |-> <<>>, errors |-> <<>>, asked |-> <<>>]

IdleTry ==
    /\ cFile = <<>>
    /\ cAnswers = <<>>
    /\ cUrl = <<>>
    /\ cOut = NoLink
    /\ cPc = "idle"

InitTry ==
    /\ cFile \in CandidateFiles
    /\ cAnswers \in [1..Len(get_dropbox_path_candidates(cFile, NoLibraryRoot)) -> sgtl_answers]
    /\ cUrl \in SharedUrls(cFile)
    /\ cOut = NoLink
    /\ cPc = "call"

\* link = get_permanent_link(token, file_path, errors)
GetLink ==
    /\ cPc = "call"
    /\ cOut' = sgtl_get_permanent_link(cFile, get_dropbox_path_candidates(cFile, NoLibraryRoot),
                                       cAnswers, sgtl_convert_to_direct_link(cUrl, IsAudio(cFile)))
    /\ cPc' = "returned"
    /\ UNCHANGED <<cFile, cAnswers, cUrl>>
    /\ UNCHANGED <<pathVars, lookupVars, mergeVars, linkVars, scanVars, inputVars, titleVars>>

-----------------------------------------------------------------------------
(* Inputs: what update_library_durations and generate_track_links look for *)
(* before their loops begin.                                               *)

Credentials == {"DROPBOX_REFRESH_TOKEN", "DROPBOX_APP_KEY", "DROPBOX_APP_SECRET"}

\* the answers of oauth2/token: an access token, a body without one, a
\* status that is not ok, an exception of requests.post
TokenResponses == {"access_token", "no_access_token", "not_ok", "raises"}

AccessToken == <<"t">>

\* get_dropbox_token: None unless the three variables are set and the
\* answer is ok and has an access token
get_dropbox_token(credentials, response) ==
    IF credentials # Credentials THEN <<>>
    ELSE IF response = "access_token" THEN AccessToken
    ELSE <<>>

\* a run goes on without a token
TokenNeverMissing(token) == FALSE
\* if not token
NoToken(token) == token = <<>>

\* if not durations_file.exists() ... if not library_file.exists()
MissingInput(durations_file, library_file) == ~durations_file \/ ~library_file

\* the files are there, the credentials are set and Dropbox gives a token
IdleInputs ==
    /\ iDurationsFile = TRUE
    /\ iLibraryFile = TRUE
    /\ iCredentials = Credentials
    /\ iResponse = "access_token"

\* the track tables of at most one row
FewRows == { rows \in MergeRowSeqs : Len(rows) <= 1 }

\* the libraries whose covers are not asked for
TrackLinkLibraries ==
    { library \in LinkLibraries :
        \A a \in 1..Len(library.albums) :
            library.albums[a].coverUrl \in {SharedCoverUrl, RelativeCoverPath} }

\* update_library_durations is called; a file that does not exist has no
\* content
StartOfMerge ==
    /\ iDurationsFile \in BOOLEAN
    /\ iLibraryFile \in BOOLEAN
    /\ iCredentials = Credentials
    /\ iResponse = "access_token"
    /\ uScript = "uld"
    /\ uRows \in IF iDurationsFile THEN FewRows ELSE { <<>> }
    /\ uIndex = <<>>
    /\ uBefore \in IF iLibraryFile THEN Libraries ELSE { NoLibrary }
    /\ uLibrary = NoLibrary
    /\ uFile = uBefore
    /\ uFirst = NoLibrary
    /\ uAlbum = 0
    /\ uTotal = 0
    /\ uUpdated = 0
    /\ uWrites = 0
    /\ uRun = 1
    /\ uPc = "start"

\* the two exists() tests of update_library_durations: return False
StartMerge ==
    /\ uPc = "start"
    /\ uPc' = IF MissingInput(iDurationsFile, iLibraryFile) THEN "failed" ELSE "load"
    /\ UNCHANGED <<uScript, uRows, uIndex, uBefore, uLibrary, uFile, uFirst, uAlbum, uTotal,
                   uUpdated, uWrites, uRun,
                   pathVars, lookupVars, linkVars, scanVars, tryVars, inputVars, titleVars>>

\* generate_track_links is called
StartOfLinks ==
    /\ iDurationsFile = TRUE
    /\ iLibraryFile \in BOOLEAN
    /\ iCredentials \in SUBSET Credentials
    /\ iResponse \in TokenResponses
    /\ kScript \in LinkScripts
    /\ kBefore \in IF iLibraryFile THEN TrackLinkLibraries ELSE { NoLinkLibrary }
    /\ kLibrary = NoLinkLibrary
    /\ kFile = kBefore
    /\ kErrors = <<>>
    /\ kAsked = <<>>
    /\ kVisited = <<>>
    /\ kItem = 0
    /\ kTracksWithLinks = 0
    /\ kCoversWithLinks = 0
    /\ kWrites = 0
    /\ kRun = 1
    /\ kFirst = <<>>
    /\ kPc = "start"

\* the library is opened, which raises if it is not there, and the token
\* is asked for: return False without one
StartLinks ==
    /\ kPc = "start"
    /\ IF ~iLibraryFile
       THEN /\ kPc' = "raised"
            /\ UNCHANGED <<kLibrary, kItem>>
       ELSE IF NoToken(get_dropbox_token(iCredentials, iResponse))
       THEN /\ kPc' = "no_token"
            /\ kLibrary' = kBefore
            /\ UNCHANGED kItem
       ELSE /\ kPc' = "tracks"
            /\ kLibrary' = kBefore
            /\ kItem' = 1
    /\ UNCHANGED <<kScript, kBefore, kFile, kErrors, kAsked, kVisited, kTracksWithLinks,
                   kCoversWithLinks, kWrites, kRun, kFirst>>
    /\ UNCHANGED <<pathVars, lookupVars, mergeVars, scanVars, tryVars, inputVars, titleVars>>

\* every component of the duration and link scripts is idle
IdleMedia ==
    IdlePath /\ IdleLookup /\ IdleMerge /\ IdleLinks /\ IdleScan /\ IdleTry /\ IdleInputs
\* every component of the release comparison scripts is idle
IdleTitles == IdleNormalize /\ IdleMatch /\ IdleExtract /\ IdleRun

----------------------------------------------------------------------------
(* Specifications.                                                         *)

NormalizeInit == InitNormalize /\ IdleMatch /\ IdleExtract /\ IdleRun /\ IdleMedia
NormalizeNext == NormalizeOnce \/ NormalizeTwice
SpecNormalize == NormalizeInit /\ [][NormalizeNext]_vars

MatchInit == InitMatch /\ IdleNormalize /\ IdleExtract /\ IdleRun /\ IdleMedia
MatchNext == Match
SpecMatch == MatchInit /\ [][MatchNext]_vars

TiesInit == InitTies /\ IdleNormalize /\ IdleExtract /\ IdleRun /\ IdleMedia
TiesNext == Match
SpecTies == TiesInit /\ [][TiesNext]_vars

ExtractInit == InitExtract /\ IdleNormalize /\ IdleMatch /\ IdleRun /\ IdleMedia
ExtractNext == Extract
SpecExtract == ExtractInit /\ [][ExtractNext]_vars

RunInit == InitRun /\ IdleNormalize /\ IdleMatch /\ IdleExtract /\ IdleMedia
RunNext == ExtractListing \/ LoadLibrary \/ CompareRelease \/ FinishRun
SpecReconcile == RunInit /\ [][RunNext]_vars

PathInit == InitPath /\ IdleLookup /\ IdleMerge /\ IdleLinks /\ IdleScan /\ IdleTry /\ IdleInputs
    /\ IdleTitles
PathNext == NormalizePathCall
SpecPath == PathInit /\ [][PathNext]_vars

LookupInit == InitLookup /\ IdlePath /\ IdleMerge /\ IdleLinks /\ IdleScan /\ IdleTry /\ IdleInputs
    /\ IdleTitles
LookupNext == LoadIndex \/ FindTrackDuration
SpecLookup == LookupInit /\ [][LookupNext]_vars

MergeInit == InitMerge /\ IdlePath /\ IdleLookup /\ IdleLinks /\ IdleScan /\ IdleTry /\ IdleInputs
    /\ IdleTitles
MergeNext == LoadFiles \/ MergeNextAlbum \/ WriteLibrary \/ RunAgain
SpecMerge == MergeInit /\ [][MergeNext]_vars

LinksInit == InitLinks /\ IdlePath /\ IdleLookup /\ IdleMerge /\ IdleScan /\ IdleTry /\ IdleInputs
    /\ IdleTitles
LinksNext == LinkNextTrack \/ StartCovers \/ LinkNextCover \/ FinishLinks
SpecLinks == LinksInit /\ [][LinksNext]_vars

ScanInit == InitScan /\ IdlePath /\ IdleLookup /\ IdleMerge /\ IdleLinks /\ IdleTry /\ IdleInputs
    /\ IdleTitles
ScanNext == ScanNextAlbum \/ WriteReport
SpecScan == ScanInit /\ [][ScanNext]_vars

RelinkNext == LinkNextTrack \/ StartCovers \/ LinkNextCover \/ FinishLinks \/ LinkAgain
\* the libraries whose covers are not asked for: the requests of the two
\* runs are those of the track loop
RelinkInit ==
    /\ LinksInit
    /\ kBefore \in TrackLinkLibraries
SpecRelink == RelinkInit /\ [][RelinkNext]_vars

InputsInit ==
    /\ \/ StartOfMerge /\ IdleLinks
       \/ StartOfLinks /\ IdleMerge
    /\ IdlePath /\ IdleLookup /\ IdleScan /\ IdleTry /\ IdleTitles
InputsNext ==
    \/ StartMerge \/ LoadFiles \/ MergeNextAlbum \/ WriteLibrary
    \/ StartLinks \/ LinkNextTrack \/ StartCovers \/ LinkNextCover \/ FinishLinks
SpecInputs == InputsInit /\ [][InputsNext]_vars

TryInit ==
    InitTry /\ IdlePath /\ IdleLookup /\ IdleMerge /\ IdleLinks /\ IdleScan /\ IdleInputs
        /\ IdleTitles
TryNext == GetLink
SpecCandidates == TryInit /\ [][TryNext]_vars

----------------------------------------------------------------------------
(* C1: every title normalizer is idempotent: normalizing a normalized      *)
(* title gives it back unchanged, for the variant that strips a year       *)
(* prefix (ext), the variant that strips ' bookmark' (fm) and zc's.        *)
C1_Idempotent ==
    (nPc = "twice" /\ nScript \in {"ext", "fm", "zc"}) => nTwice = nOnce

----------------------------------------------------------------------------
(* C2: a query that equals a library key verbatim is answered with that    *)
(* very key, whatever other keys the library holds and in whatever order   *)
(* (ext, zc, pzl).                                                         *)
C2_ExactKeyWins ==
    (mPc = "returned" /\ mScript \in {"ext", "zc", "pzl"}
        /\ mQuery \in SeqRange(mLibrary))
    => (mResult.outcome = "key" /\ mResult.key = mQuery)

\* the shorter of the normalized query and the normalized returned key
ShorterNormLen ==
    Min(Len(Normalize(mScript, mQuery)), Len(Normalize(mScript, mResult.key)))

(* C3: a key returned because one normalized string contains the other     *)
(* has a shorter normalized string of more than 5 characters (ext, zc,     *)
(* fm).                                                                    *)
C3_SubstringGuard ==
    (mPc = "returned" /\ mScript \in {"ext", "zc", "fm"}
        /\ mResult.tier = "Substring")
    => ShorterNormLen > 5

\* the words the normalized query shares with the normalized returned key
QueryWords == WordSet(Normalize(mScript, mQuery))
SharedWords == QueryWords \cap WordSet(Normalize(mScript, mResult.key))

(* C4: a key accepted by the word-overlap tier shares at least             *)
(* max(2, 0.7 * |query words|) words with the query (pzl, ext).            *)
C4_WordCountFloor ==
    (mPc = "returned" /\ mScript \in {"pzl", "ext"}
        /\ mResult.tier = "WordOverlap")
    => 10 * Cardinality(SharedWords) >= Max(20, 7 * Cardinality(QueryWords))

(* C5: the matcher never raises: every call ends with a library key or     *)
(* with 'no match'.                                                        *)
C5_NeverRaises ==
    mPc = "returned"
    => \/ mResult.outcome = "none"
       \/ mResult.outcome = "key" /\ mResult.key \in SeqRange(mLibrary)

(* C7: "Joe's Garage" against the single key "Joe's Garage Acts I, II &    *)
(* III" returns that key (fm, zc).                                         *)
C7_JoesGarageMatches ==
    (mPc = "returned" /\ mScript \in {"fm", "zc"}
        /\ mQuery = JoesGarage /\ mLibrary = <<JoesGarageActs>>)
    => (mResult.outcome = "key" /\ mResult.key = JoesGarageActs)

----------------------------------------------------------------------------
\* the lines of the listing, and the record each stands for
TextLines == SplitLines(eText)
LineRecord(i) == LineRelease(eScript, TextLines[i])

\* the lines the extractor accepts
AcceptedLines == {i \in 1..Len(TextLines) : LineRecord(i).accepted}

\* the first line whose key is k
FirstLineOf(k) ==
    CHOOSE i \in AcceptedLines :
        /\ LineRecord(i).full = k
        /\ \A j \in AcceptedLines : LineRecord(j).full = k => i <= j

\* the output holds no key twice, and holds exactly the accepted lines' keys
OutputIsTheAcceptedKeys ==
    /\ \A i, j \in 1..Len(eOut) : i # j => eOut[i] # eOut[j]
    /\ SeqRange(eOut) = {LineRecord(i).full : i \in AcceptedLines}

\* the output lists the keys in the order of their first lines
FirstOccurrenceOrder ==
    \A i, j \in 1..Len(eOut) : i < j => FirstLineOf(eOut[i]) < FirstLineOf(eOut[j])

\* the output lists the keys in ascending order of str
AscendingOrder ==
    \A i, j \in 1..Len(eOut) : i < j => StrLess(eOut[i], eOut[j])

(* C9 as stated: every extractor returns each key of an accepted line      *)
(* once, in first-occurrence order of the lines (pzl, fm, zc).             *)
C9_FirstOccurrenceAll ==
    ePc = "returned" => (OutputIsTheAcceptedKeys /\ FirstOccurrenceOrder)

(* C9 as amended: every extractor returns each key of an accepted line     *)
(* once; pzl and fm list them in first-occurrence order of the lines, zc   *)
(* lists them in ascending string order (it returns sorted(set)).          *)
C9_OrderPerScript ==
    ePc = "returned" =>
        /\ OutputIsTheAcceptedKeys
        /\ eScript \in {"pzl", "fm"} => FirstOccurrenceOrder
        /\ eScript = "zc" => AscendingOrder

\* a listing with a repeated line has been extracted; its two keys are
\* returned in first-occurrence order, which is not their ascending order
C9_Witness ==
    /\ ePc = "returned"
    /\ Len(eOut) = 2
    /\ Cardinality(AcceptedLines) = 3
    /\ eOut = <<ReleaseKey(<<"1","9","7","9">>, JoesGarageActI),
                ReleaseKey(<<"1","9","6","6">>, FreakOut)>>

\* the noise vocabulary of each script
NoiseWords(script) ==
    CASE script = "pzl" -> SeqRange(pzl_skip_patterns)
      [] script = "fm"  -> SeqRange(fm_format_markers)
      [] script = "zc"  -> SeqRange(zc_skip_keywords)

\* the year and title that the pattern finds in line i
LineMatch(i) == MatchReleaseLine(Strip(TextLines[i]))
LineTitle(i) ==
    IF eScript = "fm" THEN CollapseSpaces(Strip(LineMatch(i).title))
    ELSE Strip(LineMatch(i).title)

(* C10: a year-title line is rejected exactly when its title equals an     *)
(* entry of the noise vocabulary case-insensitively or has length <= 2;    *)
(* a title that only contains a noise word is extracted.                   *)
C10_RejectsExactNoiseOnly ==
    ePc = "returned" =>
        \A i \in 1..Len(TextLines) :
            LineMatch(i).matched =>
                (ReleaseKey(LineMatch(i).year, LineTitle(i)) \notin SeqRange(eOut)
                 <=> \/ Lower(LineTitle(i)) \in {Lower(w) : w \in NoiseWords(eScript)}
                     \/ Len(LineTitle(i)) <= 2)

----------------------------------------------------------------------------
\* the listing and the folder of the end-to-end scenario
ScenarioText == ListingText(<<LineFreakOut, LineJoesGarageActI>>)
ScenarioFolders == {<<DirFreakOut, DirJoesGarage>>, <<DirJoesGarage, DirFreakOut>>}
KeyFreakOut == ReleaseKey(<<"1","9","6","6">>, FreakOut)
KeyJoesGarageActI == ReleaseKey(<<"1","9","7","9">>, JoesGarageActI)

\* the release a found entry stands for: find_missing_zappa appends
\* ' (matched with: ...)' to it
IsFoundEntryOf(entry, full) ==
    entry = full \/ \E k \in SeqRange(rLibrary) : entry = MatchedWith(full, k)

(* C6: with the library read from '#1 Freak Out! (February 1966)' and      *)
(* '#28-29 Joe's Garage Acts I, II & III (September 1979)', the listing    *)
(* lines '1966 - Freak Out!' and '1979 - Joe's Garage: Act I' are both     *)
(* found and none is missing (pzl, zc, fm).                                *)
C6_ScenarioAllFound ==
    (rPc = "done" /\ rText = ScenarioText /\ rFolders \in ScenarioFolders)
    => /\ rMissing = <<>>
       /\ Len(rFound) = 2
       /\ \E i \in 1..2 : IsFoundEntryOf(rFound[i], KeyFreakOut)
       /\ \E i \in 1..2 : IsFoundEntryOf(rFound[i], KeyJoesGarageActI)

(* C8: after a run every extracted release is in exactly one of found and  *)
(* missing, and it is in missing if and only if the matcher returned 'no   *)
(* match' for its title (pzl, fm, zc).                                     *)
C8_Partition ==
    rPc = "done" =>
        /\ Len(rFound) + Len(rMissing) = Len(rReleases)
        /\ \A i \in 1..Len(rReleases) :
              LET full == ReleaseFull(rScript, rReleases, i)
              IN  /\ (full \in SeqRange(rMissing))
                        # (\E j \in 1..Len(rFound) : IsFoundEntryOf(rFound[j], full))
                  /\ (full \in SeqRange(rMissing)) <=> (rAnswers[i].outcome = "none")

(* C11: for every input string, the empty string and strings of only       *)
(* slashes or whitespace included, the output of the path normalizer       *)
(* begins with '/' (sgtl, uld, ccl).                                       *)
C11_BeginsWithSlash ==
    (pPc = "returned" /\ pScript \in {"sgtl", "uld", "ccl"})
        => (pOut # <<>> /\ pOut[1] = "/")

\* the library prefix alone: ccl removes it whole and puts the slash back
C11_Witness ==
    /\ pPc = "returned"
    /\ pScript = "ccl"
    /\ pPath = LibraryPrefix
    /\ pOut = <<"/">>

\* a drive letter, ':' and a slash or backslash at the start of the path
BeginsWithDrive(path) ==
    /\ Len(path) >= 3
    /\ path[1] \in UpperChars \cup LowerChars
    /\ path[2] = ":"
    /\ path[3] \in {"/", "\\"}

\* '/' and what follows the first '/dropbox/' of the path, in any case
AfterFirstMarker(path) ==
    <<"/">> \o DropN(SlashesForward(path),
                     Find(Lower(SlashesForward(path)), DropboxMarker) + Len(DropboxMarker))

(* C12: for every path that begins with a drive letter, ':' and a slash or *)
(* backslash and that holds '/dropbox/' in any letter case, the path       *)
(* normalizer returns what follows the first occurrence of the marker,     *)
(* prefixed by '/' (sgtl, etd, gtl).  Runs of slashes and outer blanks are *)
(* not told apart.                                                         *)
C12_TruncatesAtMarker ==
    (/\ pPc = "returned"
     /\ pScript \in {"sgtl", "etd", "gtl"}
     /\ BeginsWithDrive(pPath)
     /\ IsSubstring(DropboxMarker, Lower(SlashesForward(pPath))))
        => CollapseSlashes(Strip(pOut)) = CollapseSlashes(Strip(AfterFirstMarker(pPath)))

\* the claim on drive C only
C12_DriveC ==
    (/\ pPc = "returned"
     /\ pScript \in {"sgtl", "etd", "gtl"}
     /\ BeginsWithDrive(pPath)
     /\ pPath[1] \in {"C", "c"}
     /\ IsSubstring(DropboxMarker, Lower(SlashesForward(pPath))))
        => CollapseSlashes(Strip(pOut)) = CollapseSlashes(Strip(AfterFirstMarker(pPath)))

\* the path a script looks up for a track
LookupKey(script, file_path) ==
    IF script = "uld" THEN uld_normalize_path(file_path)
    ELSE ccl_normalize_path_for_lookup(file_path)

\* the stated order: the exact key, the key in lower case, the first key
\* with the same final segment in any case, 0
StatedDuration(normalized, durations) ==
    IF HasKey(durations, normalized) THEN ValueOf(durations, normalized)
    ELSE IF HasKey(durations, Lower(normalized)) THEN ValueOf(durations, Lower(normalized))
    ELSE FirstByFileName(durations, LastSegment(normalized))

(* C13: the duration lookup returns the value under the normalized track   *)
(* path if it is a key of the index, else the value under the path in      *)
(* lower case if that is a key, else the value of the first key in         *)
(* iteration order whose final segment equals the track's in any case,     *)
(* else 0 (uld, ccl).                                                      *)
C13_LookupOrder ==
    dPc = "found" => dOut = StatedDuration(LookupKey(dScript, dTrack.filePath), dIndex)

\* the claim for find_duration of update_library_durations only
C13_LookupOrderUld ==
    (dPc = "found" /\ dScript = "uld")
        => dOut = StatedDuration(LookupKey(dScript, dTrack.filePath), dIndex)

\* the positions of the tracks of a library
TrackPositions(library) ==
    { <<i, j>> \in (1..MaxTracks + 1) \X (1..MaxTracks + 1) :
          i <= Len(library.albums) /\ j <= Len(library.albums[i].tracks) }

TrackAt(library, at) == library.albums[at[1]].tracks[at[2]]

(* C14: a track whose durationMs is positive before a merge run has a      *)
(* positive durationMs during and after it, and after a second run on the  *)
(* output of the first with the same index every track has the durationMs  *)
(* the first run gave it (uld, ccl).                                       *)
C14_KeepsResolved ==
    /\ uPc \in {"merge", "done"} =>
           \A at \in TrackPositions(uBefore) :
               TrackAt(uBefore, at).durationMs > 0 => TrackAt(uLibrary, at).durationMs > 0
    /\ (uPc = "done" /\ uRun = 2) =>
           \A at \in TrackPositions(uFirst) :
               TrackAt(uFile, at).durationMs = TrackAt(uFirst, at).durationMs

\* two runs are over: one track kept a duration the index does not hold,
\* another had a duration and took the one of the index
C14_Witness ==
    /\ uPc = "done"
    /\ uRun = 2
    /\ uScript = "uld"
    /\ \E at \in TrackPositions(uFile) :
           /\ TrackAt(uFile, at).durationMs = OldDurationMs
           /\ uld_find_duration(TrackAt(uFile, at).filePath, uIndex) = 0
    /\ \E at \in TrackPositions(uFile) :
           /\ TrackAt(uFirst, at).durationMs = DurationMs(SongRow[2])
           /\ TrackAt(uFile, at).durationMs = DurationMs(SongRow[2])

(* C15: the second of two merge runs writes what the first wrote: the      *)
(* durations of the tracks, the totals of the albums and of the library    *)
(* and the hasDurations flag are equal (uld, ccl).                         *)
C15_SecondRunIdentical ==
    (uPc = "done" /\ uRun = 2) => uFile = uFirst

\* the claim for update_library_durations only
C15_SecondRunIdenticalUld ==
    (uPc = "done" /\ uRun = 2 /\ uScript = "uld") => uFile = uFirst

(* C16: after a merge run of update_library_durations the totalDurationMs  *)
(* of every album is the sum of the positive durationMs of its tracks and  *)
(* the totalDurationMs of the library is the sum of the totals of the      *)
(* albums.                                                                 *)
C16_TotalsAreSums ==
    (uPc = "done" /\ uScript = "uld") =>
        /\ \A i \in 1..Len(uFile.albums) :
               uFile.albums[i].totalDurationMs = PositiveSum(uFile.albums[i].tracks)
        /\ uFile.totalDurationMs = AlbumTotals(uFile.albums)

\* ms is the seconds times 1000, a part of a millisecond left out; the
\* seconds are counted in half milliseconds
IsSecondsTimes1000(ms, halfMs) == ms * 2 <= halfMs /\ halfMs < ms * 2 + 2

\* the row is under drive C, holds the marker, lasts a millisecond or more
\* and no later row is exported under its key
ExportedRow(rows, k) ==
    /\ StartsWithDriveC(SlashesForward(rows[k][1]))
    /\ IsSubstring(DropboxMarker, Lower(SlashesForward(rows[k][1])))
    /\ rows[k][2] >= 2
    /\ \A later \in (k + 1)..Len(rows) :
           /\ rows[later][2] > 0
              => /\ etd_normalized_path(rows[later][1]) # AfterFirstMarker(rows[k][1])
                 /\ Lower(etd_normalized_path(rows[later][1])) # AfterFirstMarker(rows[k][1])

-----------------------------------------------------------------------------
(* C18: link generation continues past failures: whatever Dropbox answers  *)
(* for each file, the passes of a run are the tracks of the library and    *)
(* then its album covers, each once and in library order; a pass that asked *)
(* for a link and got none added an entry naming the path of its item to   *)
(* errors; the position of the next pass does not depend on earlier        *)
(* failures, and a run that is over has visited every item.                *)

\* the items of the passes made so far
VisitedItems == [i \in 1..Len(kVisited) |-> kVisited[i].item]

\* some entry the pass added names the path
AddedEntryFor(visit) ==
    \E e \in (visit.from + 1)..visit.to : e <= Len(kErrors) /\ kErrors[e].path = visit.path

C18_ContinuesPastFailures ==
    kPc # "idle" =>
        /\ Len(kVisited) <= Len(AllItems(kBefore))
        /\ VisitedItems = SubSeq(AllItems(kBefore), 1, Len(kVisited))
        /\ kPc = "tracks" => kItem = Len(kVisited) + 1
        /\ kPc = "covers" => kItem = Len(kVisited) - Len(AllTracks(kBefore)) + 1
        /\ kPc \in {"done", "failed"} => Len(kVisited) = Len(AllItems(kBefore))
        /\ \A i \in 1..Len(kVisited) :
              kVisited[i].asked /\ ~kVisited[i].linked => AddedEntryFor(kVisited[i])

\* a finished run in which a track got no link and a later cover got one
C18_Witness ==
    /\ kPc = "done"
    /\ \E i, j \in 1..Len(kVisited) :
          /\ i < j
          /\ kVisited[i].item.kind = "track" /\ kVisited[i].asked /\ ~kVisited[i].linked
          /\ kVisited[j].item.kind = "cover" /\ kVisited[j].linked
          /\ AddedEntryFor(kVisited[i])


-----------------------------------------------------------------------------
(* C19: persistent state is written only at the end of a full run: while a *)
(* run still has an item to process (an album directory to scan, a track   *)
(* or a cover to link, an album to merge), the database and the output     *)
(* file are what they were when the run started.                           *)

\* scan_library has an album directory left
DirsLeft == sPc = "scan" /\ sAlbum <= Len(sDirs)

\* generate_track_links has a track or a cover left
ItemsLeft == kPc = "tracks" \/ (kPc = "covers" /\ kItem <= Len(kLibrary.albums))

\* the merge has an album left, or has not loaded its files
AlbumsLeft == uPc = "load" \/ (uPc = "merge" /\ uAlbum <= Len(uLibrary.albums))

\* generate_track_links writes nothing while it has items left
LinksWrittenAtEnd == ItemsLeft => kFile = kBefore /\ kWrites = 0

\* the merge writes nothing while it has albums left
MergeWrittenAtEnd == AlbumsLeft => uWrites = uRun - 1

C19_WritesOnlyAtEnd ==
    /\ DirsLeft => sDb = sBefore /\ sCommits = 0
    /\ LinksWrittenAtEnd
    /\ MergeWrittenAtEnd


-----------------------------------------------------------------------------
(* C20: tier precedence (zc, fm): the key the matcher returns satisfies    *)
(* the earliest tier that any key of the library satisfies for the query;  *)
(* in particular, when some key satisfies the substring tier, the key      *)
(* returned is not one that only word overlap accepts.                     *)

\* the substring check of each script accepts the key: zc asks for a
\* normalized query of more than 5 characters and for the long words of
\* one to be among those of the other; fm asks for min(len) / max(len) > 0.5
SubstringAccepts(script, query, key) ==
    /\ EitherContains(Normalize(script, query), Normalize(script, key))
    /\ IF script = "zc"
       THEN /\ Len(Normalize(script, query)) > 5
            /\ LongWordSet(Normalize(script, query)) # {}
            /\ LongWordSet(Normalize(script, key)) # {}
            /\ \/ LongWordSet(Normalize(script, query)) \subseteq LongWordSet(Normalize(script, key))
               \/ LongWordSet(Normalize(script, key)) \subseteq LongWordSet(Normalize(script, query))
       ELSE 2 * Min(Len(Normalize(script, query)), Len(Normalize(script, key)))
                > Max(Len(Normalize(script, query)), Len(Normalize(script, key)))

\* the earliest tier the key satisfies: 1 ExactKey, 2 NormalizedExact,
\* 3 Substring, and 4 for a key that only word overlap can accept
EarliestTier(script, query, key) ==
    IF key = query THEN 1
    ELSE IF Normalize(script, key) = Normalize(script, query) THEN 2
    ELSE IF SubstringAccepts(script, query, key) THEN 3
    ELSE 4

TierPrecedence(script) ==
    (mPc = "returned" /\ mScript = script /\ mResult.outcome = "key")
    => \A t \in 1..Len(mLibrary) :
          EarliestTier(mScript, mQuery, mLibrary[t]) >= EarliestTier(mScript, mQuery, mResult.key)

C20_TierPrecedence == TierPrecedence("zc") /\ TierPrecedence("fm")

\* the same for zc alone
C20_TierPrecedenceZc == TierPrecedence("zc")

\* fm returns a key that only word overlap accepts although another key
\* satisfies the substring tier
C20_OverlapBeatsSubstring ==
    /\ mPc = "returned" /\ mScript = "fm" /\ mResult.outcome = "key"
    /\ EarliestTier(mScript, mQuery, mResult.key) = 4
    /\ \E t \in 1..Len(mLibrary) : EarliestTier(mScript, mQuery, mLibrary[t]) = 3


-----------------------------------------------------------------------------
(* C21: the word-overlap tier (zc, fm) accepts a key if and only if the    *)
(* intersection of the whitespace-separated word sets of the normalized    *)
(* query and the normalized key has at least 0.6 times the size of their   *)
(* union: a key returned through word overlap reaches that ratio, and a    *)
(* call that returns nothing leaves no key of the library that reaches it. *)

\* |intersection| / |union| >= 0.6 for the word sets of the two normalized titles
OverlapRatioAccepts(script, query, key) ==
    /\ WordSet(Normalize(script, query)) \cup WordSet(Normalize(script, key)) # {}
    /\ 10 * Cardinality(WordSet(Normalize(script, query)) \cap WordSet(Normalize(script, key)))
         >= 6 * Cardinality(WordSet(Normalize(script, query)) \cup WordSet(Normalize(script, key)))

JaccardBound(script) ==
    (mPc = "returned" /\ mScript = script)
    => /\ mResult.tier = "WordOverlap" => OverlapRatioAccepts(mScript, mQuery, mResult.key)
       /\ mResult.outcome = "none"
            => \A t \in 1..Len(mLibrary) : ~OverlapRatioAccepts(mScript, mQuery, mLibrary[t])

C21_JaccardBound == JaccardBound("zc") /\ JaccardBound("fm")

\* zc returns, through word overlap, a key whose ratio is below 0.6
C21_AcceptedBelowBound ==
    /\ mPc = "returned" /\ mScript = "zc" /\ mResult.tier = "WordOverlap"
    /\ ~OverlapRatioAccepts(mScript, mQuery, mResult.key)


-----------------------------------------------------------------------------
(* C22: tie-breaking (zc, fm): the key a scoring loop returns is the first *)
(* key of the library, in iteration order, among those with the highest    *)
(* score: every earlier key scores strictly less and no later key scores   *)
(* more.                                                                   *)

Score(num, den) == [num |-> num, den |-> den]
NoScore == Score(0, 1)
ScoreLess(a, b) == a.num * b.den < b.num * a.den

\* zc: len(common) / len(union) over the words of more than two characters,
\* for a key the loop takes into account (score >= 0.6)
zc_key_score(query, key) ==
    LET target_words == LongWordSet(zc_normalize_title(query))
        lib_words == LongWordSet(zc_normalize_title(key))
        common == Cardinality(target_words \cap lib_words)
        union == Cardinality(target_words \cup lib_words)
    IN  IF lib_words # {} /\ 10 * common >= 6 * union THEN Score(common, union) ELSE NoScore

\* fm: min(len) / max(len) when one normalized title contains the other
fm_containment_score(query, key) ==
    LET target_norm == fm_normalize_title(query)
        lib_norm == fm_normalize_title(key)
    IN  IF EitherContains(target_norm, lib_norm) /\ Max(Len(target_norm), Len(lib_norm)) > 0
        THEN Score(Min(Len(target_norm), Len(lib_norm)), Max(Len(target_norm), Len(lib_norm)))
        ELSE NoScore

\* fm: overlap / total over all the words, for a key the loop takes into
\* account (score > 0.5)
fm_overlap_score(query, key) ==
    LET target_words == WordSet(fm_normalize_title(query))
        lib_words == WordSet(fm_normalize_title(key))
        overlap == Cardinality(target_words \cap lib_words)
        total == Cardinality(target_words \cup lib_words)
    IN  IF target_words # {} /\ lib_words # {} /\ 2 * overlap > total
        THEN Score(overlap, total) ELSE NoScore

\* the score of a key in the scoring loop of the script
KeyScore(script, query, key) ==
    IF script = "zc" THEN zc_key_score(query, key)
    ELSE IF ScoreLess(fm_containment_score(query, key), fm_overlap_score(query, key))
         THEN fm_overlap_score(query, key)
         ELSE fm_containment_score(query, key)

\* the call returned a key from a scoring loop: zc's word-overlap loop, fm's
\* only loop
FromScoringLoop ==
    /\ mPc = "returned" /\ mScript \in ScoringScripts /\ mResult.outcome = "key"
    /\ mScript = "zc" => mResult.tier = "WordOverlap"

C22_FirstOfTheBest ==
    FromScoringLoop
    => \E i \in 1..Len(mLibrary) :
          /\ mLibrary[i] = mResult.key
          /\ \A j \in 1..(i - 1) :
                ScoreLess(KeyScore(mScript, mQuery, mLibrary[j]), KeyScore(mScript, mQuery, mResult.key))
          /\ \A j \in (i + 1)..Len(mLibrary) :
                ~ScoreLess(KeyScore(mScript, mQuery, mResult.key), KeyScore(mScript, mQuery, mLibrary[j]))

\* two keys tie at the score of the key returned, and the first of them is
\* the one returned
TieWonByFirst(script) ==
    /\ FromScoringLoop /\ mScript = script
    /\ Len(mLibrary) >= 2
    /\ mResult.key = mLibrary[1]
    /\ KeyScore(mScript, mQuery, mLibrary[1]) = KeyScore(mScript, mQuery, mLibrary[2])

C22_Witness == TieWonByFirst("zc")

\* the same tie in fm's loop
C22_TieInFm == TieWonByFirst("fm")


-----------------------------------------------------------------------------
(* C23: a duration that the lookup takes from its filename fallback is the *)
(* value of an index key whose final path segment equals the track's final *)
(* path segment in any letter case; a key whose final segment only ends    *)
(* with the track's file name is not used (uld, ccl).                      *)

\* the lookup went past the exact key and the key in lower case and the scan
\* over the keys gave a duration
FromFilenameFallback ==
    /\ dPc = "found"
    /\ dOut # 0
    /\ dTrack.filePath # <<>>
    /\ IF dScript = "uld"
       THEN /\ ~HasKey(dIndex, LookupKey(dScript, dTrack.filePath))
            /\ ~HasKey(dIndex, Lower(LookupKey(dScript, dTrack.filePath)))
       ELSE /\ dTrack.durationMs <= 0
            /\ GetOrNone(dIndex, LookupKey(dScript, dTrack.filePath)) = 0
            /\ GetOrNone(dIndex, Lower(LookupKey(dScript, dTrack.filePath))) = 0

SameFinalSegment(key, file_path) ==
    Lower(LastSegment(key)) = Lower(LastSegment(file_path))

FilenameFallback(script) ==
    (FromFilenameFallback /\ dScript = script)
    => \E i \in 1..Len(dIndex) :
          /\ SameFinalSegment(dIndex[i][1], LookupKey(dScript, dTrack.filePath))
          /\ dIndex[i][2] = dOut

C23_FilenameFallback == FilenameFallback("uld") /\ FilenameFallback("ccl")

\* the claim for find_duration of update_library_durations only
C23_FilenameFallbackUld == FilenameFallback("uld")

\* the fallback of a script gave a duration
C23_FallbackOfUld == FromFilenameFallback /\ dScript = "uld"
C23_FallbackOfCcl == FromFilenameFallback /\ dScript = "ccl"


-----------------------------------------------------------------------------
(* C24: the output of the path normalizer holds no backslash and no two    *)
(* '/' in a row, for every input (sgtl, uld).                              *)

NoBackslashNoDoubleSlash(path) ==
    /\ \A i \in 1..Len(path) : path[i] # "\\"
    /\ ~IsSubstring(<<"/", "/">>, path)

SlashesCollapsed(script) ==
    (pPc = "returned" /\ pScript = script) => NoBackslashNoDoubleSlash(pOut)

C24_SlashesCollapsed == SlashesCollapsed("sgtl") /\ SlashesCollapsed("uld")

\* the claim for _normalize_path of scripts/generate_track_links.py only
C24_SlashesCollapsedSgtl == SlashesCollapsed("sgtl")

\* normalize_path of update_library_durations returns two '/' in a row
C24_DoubleSlashKept ==
    /\ pPc = "returned" /\ pScript = "uld"
    /\ IsSubstring(<<"/", "/">>, pOut)

\* _normalize_path was given backslashes and runs of slashes
C24_SgtlCollapsed ==
    /\ pPc = "returned" /\ pScript = "sgtl"
    /\ IsSubstring(<<"\\", "/">>, pPath)
    /\ IsSubstring(<<"/", "/">>, pPath)


-----------------------------------------------------------------------------
(* C25: the loader of the duration index stores two entries for every row  *)
(* with a positive duration, the canonical path key and its lower case,    *)
(* so that the index has twice as many entries as rows were loaded, and    *)
(* the canonical key of a row gives that row's own duration (etd, ccl).    *)

\* the canonical key of a row's path: the index uld reads is the one
\* export_track_durations wrote
CanonicalKey(script, file_path) ==
    IF script = "uld" THEN etd_normalized_path(file_path)
    ELSE ccl_normalize_path_for_lookup(file_path)

AcceptedRows(rows) == {r \in 1..Len(rows) : rows[r][2] > 0}

C25_TwoEntriesPerRow ==
    dPc \in {"find", "found"}
    => /\ Len(dIndex) = 2 * Cardinality(AcceptedRows(dRows))
       /\ \A r \in AcceptedRows(dRows) :
              /\ HasKey(dIndex, CanonicalKey(dScript, dRows[r][1]))
              /\ ValueOf(dIndex, CanonicalKey(dScript, dRows[r][1])) = DurationMs(dRows[r][2])

\* two rows with different paths and the same canonical key were loaded: the
\* index has two entries and the key gives the duration of the second row
C25_SecondRowReplacesFirst ==
    /\ dPc = "find"
    /\ dRows = <<SongRow, SongRowAgain>>
    /\ Len(dIndex) = 2
    /\ ValueOf(dIndex, CanonicalKey(dScript, SongRow[1])) = DurationMs(SongRowAgain[2])

\* a row whose canonical key is in lower case was loaded: one entry
C25_LowerCaseKeyStoredOnce ==
    /\ dPc = "find"
    /\ dRows = <<ShortRow>>
    /\ Len(dIndex) = 1


-----------------------------------------------------------------------------
(* C26: every value of the duration index is a positive number of          *)
(* milliseconds: rows with a duration of 0 or less are left out and the    *)
(* value stored for a row, int(duration_seconds * 1000), is above 0, also  *)
(* for a duration below one millisecond (etd, ccl).                        *)
C26_PositiveValues ==
    dPc \in {"find", "found"} => \A i \in 1..Len(dIndex) : dIndex[i][2] > 0

\* a row with a positive duration below one millisecond was loaded and its
\* key holds 0
C26_ZeroStored ==
    /\ dPc = "find"
    /\ dRows = <<ShortRow>>
    /\ ShortRow[2] > 0
    /\ dIndex = <<<<NonePath, 0>>>>


-----------------------------------------------------------------------------
(* C27: when generate_track_links of scripts/generate_track_links.py has   *)
(* returned True, every coverUrl of the library written that is an HTTP    *)
(* image URL holds 'raw=1' and neither 'dl=0' nor 'dl=1', be it a URL the  *)
(* library had or a link obtained in the run.                              *)

IsHttpImage(cover_url) ==
    StartsWith(cover_url, Http) /\ HasExtension(cover_url, CoverImageExtensions)

RawAndNoDl(cover_url) ==
    /\ IsSubstring(Raw1, cover_url)
    /\ ~IsSubstring(Dl0, cover_url)
    /\ ~IsSubstring(Dl1, cover_url)

C27_CoversRaw ==
    (kPc = "done" /\ kScript = "sgtl")
    => \A a \in 1..Len(kFile.albums) :
          IsHttpImage(kFile.albums[a].coverUrl) => RawAndNoDl(kFile.albums[a].coverUrl)

\* the same for the covers that were HTTP URLs before the run
C27_EarlierCoversRaw ==
    (kPc = "done" /\ kScript = "sgtl")
    => \A a \in 1..Len(kFile.albums) :
          (StartsWith(kBefore.albums[a].coverUrl, Http) /\ IsHttpImage(kFile.albums[a].coverUrl))
              => RawAndNoDl(kFile.albums[a].coverUrl)

\* every cover written without raw=1 is the link made of a shared URL that
\* has no dl parameter and is not an scl link
C27_OnlyPlainUrls ==
    (kPc = "done" /\ kScript = "sgtl")
    => \A a \in 1..Len(kFile.albums) :
          (IsHttpImage(kFile.albums[a].coverUrl) /\ ~RawAndNoDl(kFile.albums[a].coverUrl))
              => kFile.albums[a].coverUrl = RegularDirectLink(PlainCoverUrl)

\* a cover link without raw=1 was obtained and written
C27_PlainLinkWritten ==
    /\ kPc = "done" /\ kScript = "sgtl" /\ kWrites = 1
    /\ \E a \in 1..Len(kFile.albums) :
          /\ kBefore.albums[a].coverUrl = CoverPath
          /\ kFile.albums[a].coverUrl = RegularDirectLink(PlainCoverUrl)


-----------------------------------------------------------------------------
(* C28: get_permanent_link of scripts/generate_track_links.py asks for the *)
(* candidate paths in list order, goes on to the next candidate only after *)
(* Dropbox reported the path as not found, returns the first link it gets  *)
(* without asking for another candidate, and after any other failure asks  *)
(* for no other candidate and returns no link.                             *)

\* get_metadata answers 409 with path/not_found
ReportsNotFound(calls) == calls[1] = "not_found"

\* one of the calls for the path gives a shared URL
GivesLink(calls) ==
    /\ calls[1] = "ok"
    /\ \/ calls[2] = "links"
       \/ calls[3] = "url"
       \/ calls[3] = "conflict" /\ calls[4] = "links"

CandidatesOfCall == get_dropbox_path_candidates(cFile, NoLibraryRoot)

C28_RetryProtocol ==
    cPc = "returned"
    => /\ Len(cOut.asked) <= Len(CandidatesOfCall)
       /\ cOut.asked = SubSeq(CandidatesOfCall, 1, Len(cOut.asked))
       /\ CandidatesOfCall # <<>> => cOut.asked # <<>>
       /\ \A i \in 1..(Len(cOut.asked) - 1) : ReportsNotFound(cAnswers[i])
       /\ cOut.asked # <<>> =>
             /\ GivesLink(cAnswers[Len(cOut.asked)]) <=> cOut.link # <<>>
             /\ ReportsNotFound(cAnswers[Len(cOut.asked)])
                    => Len(cOut.asked) = Len(CandidatesOfCall)
       /\ cOut.asked = <<>> => cOut.link = <<>>

\* the first candidate was not found and the second failed otherwise
C28_Witness ==
    /\ cPc = "returned"
    /\ Len(cOut.asked) = 2
    /\ ReportsNotFound(cAnswers[1])
    /\ ~ReportsNotFound(cAnswers[2]) /\ ~GivesLink(cAnswers[2])
    /\ cOut.link = <<>>

\* the first candidate gave a link and the second, which Dropbox has, was
\* not asked for
C28_FirstLinkReturned ==
    /\ cPc = "returned"
    /\ Len(CandidatesOfCall) = 2
    /\ GivesLink(cAnswers[1]) /\ GivesLink(cAnswers[2])
    /\ Len(cOut.asked) = 1
    /\ cOut.link # <<>>

\* the first candidate failed with an error status and the second, which
\* Dropbox has, was not asked for
C28_StopsAfterFailure ==
    /\ cPc = "returned"
    /\ Len(CandidatesOfCall) = 2
    /\ ~GivesLink(cAnswers[1]) /\ ~ReportsNotFound(cAnswers[1]) /\ GivesLink(cAnswers[2])
    /\ Len(cOut.asked) = 1
    /\ cOut.link = <<>>

\* ---------------------------------------------------------------------
\* C29: link generation never replaces an existing track link: a track that
\* has a non-empty streamingUrl when the run starts keeps its streamingUrl
\* and its downloadUrl, in the library in memory and in the file, and its
\* pass calls get_permanent_link not at all; so a run on the file the first
\* run wrote calls get_permanent_link only for tracks the first run asked
\* for and got no link for.
\* ---------------------------------------------------------------------


\* the passes over tracks a run has made
TrackVisits(visited) == { i \in 1..Len(visited) : visited[i].item.kind = "track" }

\* the track has in a library the links it has in kBefore
SameLinks(library, at) ==
    /\ TrackAt(library, at).streamingUrl = TrackAt(kBefore, at).streamingUrl
    /\ TrackAt(library, at).downloadUrl = TrackAt(kBefore, at).downloadUrl

\* the first run asked for the item and got no link
FailedBefore(item) ==
    \E j \in 1..Len(kFirst) :
        kFirst[j].item = item /\ kFirst[j].asked /\ ~kFirst[j].linked

C29_LinkedTracksKept ==
    kRun \in {1, 2} =>
        /\ \A i \in 1..Len(AllTracks(kBefore)) :
              TrackAt(kBefore, AllTracks(kBefore)[i]).streamingUrl # <<>> =>
                  /\ SameLinks(kLibrary, AllTracks(kBefore)[i])
                  /\ SameLinks(kFile, AllTracks(kBefore)[i])
                  /\ i <= Len(kVisited) => ~kVisited[i].asked
        /\ \A i \in TrackVisits(kVisited) :
              /\ kVisited[i].item = AllItems(kBefore)[i]
              /\ kRun = 2 /\ kVisited[i].asked => FailedBefore(kVisited[i].item)

\* a track the first run linked is passed over by the second, which is over
C29_Witness ==
    /\ kRun = 2
    /\ kPc = "done"
    /\ \E i \in TrackVisits(kVisited) :
          /\ kFirst[i].asked /\ kFirst[i].linked
          /\ ~kVisited[i].asked
          /\ TrackAt(kFile, AllTracks(kBefore)[i]).streamingUrl # <<>>

\* the second run asks again for a track the first run got no link for,
\* and gets one
C29_FailedTrackAskedAgain ==
    /\ kRun = 2
    /\ kPc = "done"
    /\ \E i \in TrackVisits(kVisited) :
          /\ kFirst[i].asked /\ ~kFirst[i].linked
          /\ kVisited[i].asked /\ kVisited[i].linked

\* a track that had a link before the first run is passed over by it
C29_EarlierLinkKept ==
    /\ kRun = 1
    /\ kPc = "done"
    /\ \E i \in TrackVisits(kVisited) :
          /\ TrackAt(kBefore, AllTracks(kBefore)[i]).streamingUrl = EarlierLink
          /\ TrackAt(kFile, AllTracks(kBefore)[i]).downloadUrl = EarlierLink

\* ---------------------------------------------------------------------
\* C30: when a required input is unavailable the run fails without writing
\* anything: update_library_durations returns False and leaves the library
\* file untouched if the durations file or the library file is missing, and
\* generate_track_links returns False without writing the output file, and
\* without a request for a link, if get_dropbox_token gives no token.
\* ---------------------------------------------------------------------

C30_FailsWithoutWriting ==
    /\ uScript = "uld" /\ uPc # "start" /\ MissingInput(iDurationsFile, iLibraryFile) =>
          /\ uPc = "failed"
          /\ uFile = uBefore
          /\ uWrites = 0
    /\ /\ kScript \in LinkScripts /\ kPc # "start" /\ iLibraryFile
       /\ get_dropbox_token(iCredentials, iResponse) = <<>>
       => /\ kPc = "no_token"
          /\ kFile = kBefore
          /\ kWrites = 0
          /\ kAsked = <<>>

\* oauth2/token answers with an error for a library that has a track to
\* link, and the run has returned
C30_Witness ==
    /\ kPc = "no_token"
    /\ iCredentials = Credentials
    /\ iResponse = "not_ok"
    /\ \E i \in 1..Len(AllTracks(kBefore)) :
          /\ TrackAt(kBefore, AllTracks(kBefore)[i]).streamingUrl = <<>>
          /\ TrackAt(kBefore, AllTracks(kBefore)[i]).filePath # <<>>

\* a variable of the environment is not set
C30_CredentialMissing ==
    kPc = "no_token" /\ iCredentials = Credentials \ {"DROPBOX_APP_SECRET"}

\* the durations file is missing, the library has a track
C30_DurationsMissing ==
    uPc = "failed" /\ ~iDurationsFile /\ iLibraryFile /\ uBefore.albums # <<>>

\* the library file is missing, the durations file has a row
C30_LibraryMissing ==
    uPc = "failed" /\ iDurationsFile /\ ~iLibraryFile /\ uRows # <<>>

\* with every input there, update_library_durations writes
C30_MergeWrites ==
    uScript = "uld" /\ iDurationsFile /\ iLibraryFile /\ uPc = "done" /\ uWrites = 1

\* with a token, generate_track_links asks for a link and writes
C30_LinksWritten ==
    /\ get_dropbox_token(iCredentials, iResponse) = AccessToken
    /\ kPc = "done" /\ kWrites = 1 /\ kAsked # <<>>

====
